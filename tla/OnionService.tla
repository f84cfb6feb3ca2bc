---------------------------- MODULE OnionService ----------------------------
(***************************************************************************)
(* Package hs: the v3 onion address, the time period, the blinded keys and *)
(* the index of a descriptor, as a service and its clients use them.  A    *)
(* service publishes under the keys it derives from its seed, a client     *)
(* looks up under those it derives from the address it parsed, each by its *)
(* own clock: they never speak before, so everything they agree on they    *)
(* agree on by computing it alike.                                         *)
(*                                                                         *)
(* The curve is the integers modulo 8L: the base point is 8, of prime      *)
(* order L, and the multiples of L are the points of small order.  The hash *)
(* of a blinding parameter is an octet drawn when its input is first        *)
(* hashed; any other hash is the record of what was hashed.                 *)
(***************************************************************************)
EXTENDS Integers, Sequences, SequencesExt, TLC

CONSTANTS
    Order,    \* the prime order of the base point (ed25519GroupOrder)
    Draws,    \* the octets SHA3-256 may return for a new input
    Seeds,    \* the octets SHA-512 gives for the seeds of the services
    Points,   \* the points that an address may carry
    Settings, \* [len, off]: hsdir-interval and rotation, in minutes
    Clock,    \* unix times at which somebody looks at the clock
    Uses      \* bound on Publish and Lookup together

ASSUME OrderAssumption == Order \in Nat /\ Order > 8 /\ Order % 2 = 1
ASSUME OctetsAssumption == Draws \cup Seeds \subseteq 0 .. 255
ASSUME PointsAssumption == Points \subseteq 0 .. 8 * Order - 1
ASSUME ClockAssumption == Clock \subseteq Nat

VARIABLES
    setting,   \* the parameters of the consensus both sides use
    time,      \* the wall clock
    oracle,    \* what SHA3-256 has returned: <<identity, period, length>> -> octet
    addresses, \* the identity key of the address the client accepted
    published, \* descriptors that services have uploaded
    lookups    \* descriptors that clients have asked for

vars == <<setting, time, oracle, addresses, published, lookups>>

-----------------------------------------------------------------------------
(* Time periods                                                            *)

DefaultRotationOffsetMinutes == 12 * 60
DefaultPeriodLengthMinutes == 24 * 60

PeriodLen(minutes) == IF minutes <= 0 THEN DefaultPeriodLengthMinutes ELSE minutes

PeriodLenOfOff(minutes) == IF minutes < 0 THEN DefaultRotationOffsetMinutes ELSE minutes

PeriodNum(now, len, off) ==
    LET minutes == now \div 60 - PeriodLenOfOff(off)
    IN  IF minutes < 0 THEN 0 ELSE minutes \div PeriodLen(len)

PeriodStart(n, len, off) == n * PeriodLen(len) * 60 + PeriodLenOfOff(off) * 60

-----------------------------------------------------------------------------
(* Points and scalars                                                      *)

BasePoint == 8

Add(p, q) == (p + q) % (8 * Order)

\* SetBytesWithClamping: the low three bits cleared, the high two bits 01,
\* and the result reduced modulo the order.
BlindedScalar(octet) == (64 + 8 * ((octet % 64) \div 8)) % Order

ScalarMult(scalar, p) == (scalar * p) % (8 * Order)

PublicKey(seed) == ScalarMult(BlindedScalar(seed), BasePoint)

OrderBit(i) == (Order \div 2^i) % 2 = 1

\* A plausible bug: ScalarMult is used, which reduces its scalar.
HasTorsionReduced(p) == ScalarMult(Order % Order, p) # 0

\* Double and add over all the bits of the unreduced order, high to low.
HasTorsion(p) ==
    FoldLeft(LAMBDA acc, i: LET double == Add(acc, acc)
                            IN  IF OrderBit(i) THEN Add(double, p) ELSE double,
             0, [k \in 1 .. 8 |-> 8 - k])
    # 0

-----------------------------------------------------------------------------
(* Addresses                                                               *)

hsVersion == 3

Checksum(pk, version) == <<".onion checksum", pk, version>>

EncodeOnionAddr(pk) == [pk |-> pk, sum |-> Checksum(pk, hsVersion), version |-> hsVersion]

\* What somebody may type: the address of a key, a key that is no point,
\* another version, a mistyped key or sum.  Text that is not base32 of 35
\* bytes is refused before any of this is looked at.
NotAPoint == -1

Typed == [pk: Points \cup {NotAPoint},
          sum: {Checksum(p, hsVersion): p \in Points} \cup {Checksum(NotAPoint, hsVersion)},
          version: {2, hsVersion}]

ParseOnionAddr(addr) ==
    /\ addr.version = hsVersion
    /\ addr.sum = Checksum(addr.pk, hsVersion)
    /\ addr.pk # NotAPoint
    /\ ~HasTorsion(addr.pk)

-----------------------------------------------------------------------------
(* Blinded keys and indices                                                *)

\* A plausible bug: the number of the period is not hashed.
BlindingInputUndated(identity, n, len) == <<identity, PeriodLen(len)>>

BlindingInput(identity, n, len) == <<identity, n, PeriodLen(len)>>

\* BlindingParameter hashes its input: a new one gets any octet, one that
\* was hashed before gets the octet it got.
RandomOracle(input) == IF input \in DOMAIN oracle THEN {oracle[input]} ELSE Draws

Hashed(input, octet) == oracle' = (input :> octet) @@ oracle

BlindedPublicKey(identity, octet) == ScalarMult(BlindedScalar(octet), identity)

BlindSecretKey(seed, octet) == (BlindedScalar(octet) * BlindedScalar(seed)) % Order

Credential(identity) == <<"credential", identity>>

Subcredential(identity, blinded) == <<"subcredential", Credential(identity), blinded>>

ReplicaCount == 2

ServiceIndex(blinded, replica, len, n) == <<"store-at-idx", blinded, replica, len, n>>

-----------------------------------------------------------------------------
Descriptor(identity, blinded, n) ==
    [identity |-> identity, at |-> time, blinded |-> blinded,
     subcredential |-> Subcredential(identity, blinded),
     indices |-> [replica \in 1 .. ReplicaCount |->
                      ServiceIndex(blinded, replica, setting.len, n)]]

Init ==
    /\ setting \in Settings
    /\ time \in Clock
    /\ oracle = <<>>
    /\ addresses = {}
    /\ published = <<>>
    /\ lookups = <<>>

Tick ==
    /\ \E t \in Clock: t > time /\ time' = t
    /\ UNCHANGED <<setting, oracle, addresses, published, lookups>>

\* The client is given an address.
Visit ==
    /\ addresses = {}
    /\ \E addr \in Typed:
           /\ ParseOnionAddr(addr)
           /\ addresses' = {addr.pk}
    /\ UNCHANGED <<setting, time, oracle, published, lookups>>

\* A service signs its descriptor with the period's secret key: whoever
\* checks it sees that key's public half.
Publish ==
    /\ Len(published) + Len(lookups) < Uses
    /\ \E seed \in Seeds:
           LET n == PeriodNum(time, setting.len, setting.off)
               identity == PublicKey(seed)
               input == BlindingInput(identity, n, setting.len)
           IN  \E octet \in RandomOracle(input):
                   /\ Hashed(input, octet)
                   /\ published' = Append(published,
                          Descriptor(identity,
                                     ScalarMult(BlindSecretKey(seed, octet), BasePoint), n))
    /\ UNCHANGED <<setting, time, addresses, lookups>>

Lookup ==
    /\ Len(published) + Len(lookups) < Uses
    /\ \E identity \in addresses:
           LET n == PeriodNum(time, setting.len, setting.off)
               input == BlindingInput(identity, n, setting.len)
           IN  \E octet \in RandomOracle(input):
                   /\ Hashed(input, octet)
                   /\ lookups' = Append(lookups,
                          Descriptor(identity, BlindedPublicKey(identity, octet), n))
    /\ UNCHANGED <<setting, time, addresses, published>>

Next == Tick \/ Visit \/ Publish \/ Lookup

Spec == Init /\ [][Next]_vars

-----------------------------------------------------------------------------
\* The times at which two sides look at the clock lie between two starts
\* of a period, as PeriodStart tells them.
SamePeriod(t, u) ==
    \E n \in 0 .. t \div (60 * PeriodLen(setting.len)):
        {t, u} \subseteq PeriodStart(n, setting.len, setting.off)
                         .. PeriodStart(n + 1, setting.len, setting.off) - 1

\* The hash has given two parameters for one identity that clamp to one scalar.
Collision(identity) ==
    \E x, y \in {input \in DOMAIN oracle : input[1] = identity} :
        x # y /\ BlindedScalar(oracle[x]) = BlindedScalar(oracle[y])

\* Service and client, each with its own half of the key and its own look
\* at the clock, arrive at the same blinded key, subcredential and indices
\* whenever both looks fall into one period.  When they do not, they arrive at
\* other indices, and at another blinded key and subcredential unless the hash
\* collides: nobody finds the descriptor of another period, or links the two.
DescriptorsFound ==
    \A i \in DOMAIN published, j \in DOMAIN lookups:
        LET d == published[i]
            l == lookups[j]
            started == PeriodStart(0, setting.len, setting.off)
        IN  (d.identity = l.identity /\ d.at >= started /\ l.at >= started) =>
                IF SamePeriod(d.at, l.at)
                THEN [d EXCEPT !.at = l.at] = l
                ELSE /\ \A r, q \in 1 .. ReplicaCount: d.indices[r] # l.indices[q]
                     /\ d.blinded = l.blinded \/ d.subcredential = l.subcredential
                          => Collision(d.identity)

\* The public keys that somebody can have the private scalar of.
KeyOfSomebody(pk) == \E a \in 1 .. Order - 1: pk = ScalarMult(a, BasePoint)

\* The point 0, which is nobody's key.
Identity == 0

\* ParseOnionAddr accepts the address of every service, and nothing with a part
\* of small order, however the address was made: what it accepts is the key of
\* somebody, and so is every blinded key a client derives from it.  The one
\* exception is the identity: its order divides L, no check refuses it, and its
\* blinded key is itself in every period.
AddressIsOneService ==
    /\ \A seed \in Seeds: ParseOnionAddr(EncodeOnionAddr(PublicKey(seed)))
    /\ \A pk \in addresses: KeyOfSomebody(pk) \/ pk = Identity
    /\ \A j \in DOMAIN lookups:
           IF lookups[j].identity = Identity THEN lookups[j].blinded = Identity
                                             ELSE KeyOfSomebody(lookups[j].blinded)
=============================================================================
