---------------------------- MODULE Conn_proofs ----------------------------
(***************************************************************************)
(* The handshake of a link leaves the socket at the start of a cell, if    *)
(* the guard's addresses fit into one, and believes nobody but the relay   *)
(* it speaks with; a circuit gets all the RELAY cells of its own relay     *)
(* side, in order, whoever has used its id before it.                      *)
(*                                                                         *)
(* WayOK follows the cells of one circuit through the three places they    *)
(* can be in, what is on its way from the guard, the one cell Conn.readLoop*)
(* holds, and the circuit's Inbound, and counts in each what is ahead.     *)
(***************************************************************************)
EXTENDS Conn, Flow_proofs

-----------------------------------------------------------------------------
(* The handshake                                                           *)

LEMMA LargestExists ==
  ASSUME NEW n \in Nat, NEW I \in SUBSET (1 .. n), I # {}
  PROVE  Max(I) \in I
<1> DEFINE R == OpToRel(<, Nat)
           T == {n - i : i \in I}
<1>1. T \subseteq Nat /\ T # {}
  <2>1. \A i \in I : i \in Nat /\ i <= n
    OBVIOUS
  <2>2. PICK i \in I : TRUE
    OBVIOUS
  <2>3. n - i \in T
    OBVIOUS
  <2>4. ASSUME NEW t \in T PROVE t \in Nat
    <3>1. PICK j \in I : t = n - j
      OBVIOUS
    <3> QED BY <2>1, <3>1
  <2> QED BY <2>3, <2>4
<1>2. IsWellFoundedOn(R, Nat)
  BY NatLessThanWellFounded
<1> HIDE DEF R
<1>3. PICK x \in T : \A y \in T : ~(<<y, x>> \in R)
  <2> HIDE DEF T
  <2> QED BY <1>1, <1>2, WFMin
<1>4. \A y \in T : ~(y < x)
  BY <1>1, <1>3 DEF R, OpToRel
<1>5. PICK m \in I : x = n - m
  OBVIOUS
<1>6. ASSUME NEW i \in I PROVE m >= i
  <2>1. n - i \in T
    OBVIOUS
  <2>2. ~(n - i < n - m)
    BY <1>4, <1>5, <2>1
  <2>3. i \in Nat /\ m \in Nat
    OBVIOUS
  <2> HIDE DEF T
  <2> QED BY <2>2, <2>3
<1> QED BY <1>6 DEF Max

LEMMA BoundedIs ==
  ASSUME NEW S, NEW n \in Nat, NEW q \in BoundedSeq(S, n)
  PROVE  q \in Seq(S) /\ Len(q) \in Nat /\ Len(q) <= n
<1>1. PICK m \in 0 .. n : q \in [1 .. m -> S]
  BY DEF BoundedSeq, SeqOf
<1> QED BY <1>1

\* What NewConn verifies is a certificate some relay has issued.
LEMMA CertOfIs ==
  ASSUME NEW type \in {4, 5}, NEW certs \in CertsCells, CertOf(type, certs) # None
  PROVE  CertOf(type, certs) \in Issued
<1> DEFINE I == {j \in 1 .. Len(certs) : certs[j].type = type}
           i == SelectLastInSeq(certs, LAMBDA c : c.type = type)
<1>1. certs \in Seq([type : {4, 5}, cert : Issued]) /\ Len(certs) \in Nat
  BY BoundedIs, LinkAssumption DEF CertsCells
<1>2. i = IF I # {} THEN Max(I) ELSE 0
  BY DEF SelectLastInSeq
<1>3. i # 0 /\ CertOf(type, certs) = certs[i].cert
  BY DEF CertOf
<1>4. I # {} /\ i = Max(I) /\ I \in SUBSET (1 .. Len(certs))
  BY <1>2, <1>3
<1>5. i \in 1 .. Len(certs)
  BY <1>1, <1>4, LargestExists
<1> HIDE DEF i
<1>6. certs[i] \in [type : {4, 5}, cert : Issued]
  BY <1>1, <1>5, ElementOfSeq
<1> HIDE DEF Issued
<1> QED BY <1>3, <1>6

\* The only certificates that lead to the TLS key in use name its owner.
LEMMA VerifiedIsPeer ==
  ASSUME NEW cert4 \in Issued, NEW cert5 \in Issued, VerifyConnection(cert4, cert5)
  PROVE  cert4.ext = Identity(Peer)
<1>1. /\ cert5.key = <<"tls", Peer, 1>> /\ cert4.ext = cert4.signer /\ cert4.key = cert5.signer
  BY DEF VerifyConnection, Verify, Tls
<1>2. PICK g \in Gen : cert5.signer = <<"signing", Peer, g>>
  <2>1. CASE \E o \in Relays, g \in Gen : cert5.key = Signing(o, g)
    BY <1>1, <2>1 DEF Signing
  <2>2. CASE \E o \in Relays, g \in Gen, t \in Gen : cert5.signer = Signing(o, g) /\ cert5.key = Tls(o, t)
    BY <1>1, <2>2 DEF Signing, Tls
  <2> QED BY <2>1, <2>2 DEF Issued
<1>3. PICK o \in Relays : cert4.ext = Identity(o) /\ o = Peer
  <2>1. CASE \E o \in Relays, h \in Gen : cert4.ext = Identity(o) /\ cert4.key = Signing(o, h)
    BY <1>1, <1>2, <2>1 DEF Signing
  <2>2. CASE \E o \in Relays, t \in Gen : cert4.key = Tls(o, t)
    BY <1>1, <1>2, <2>2 DEF Tls
  <2> QED BY <2>1, <2>2 DEF Issued
<1> QED BY <1>3

\* The octets taken are those counted, and those that the addresses seen have.
NetInfoInv ==
    /\ netinfo.read = netinfo.offst
    /\ hand.pc \in {"addresses", "reply"} => netinfo.read = NetInfoUsed

LinkInv ==
    /\ LinkTypeOK
    /\ LinkInFrame
    /\ LinkVouched
    /\ NetInfoInv
    /\ hand.pc = "up" => ~deadline

Places == {"tls", "reply"} \cup Waiting \cup Returned

LEMMA NoNetInfoIs ==
  NoNetInfo \in NetInfo /\ NoNetInfo.read = 0 /\ NoNetInfo.offst = 0
BY DEF NoNetInfo, NetInfo

LEMMA LinkInvInit == LinkInit => LinkInv
<1> SUFFICES ASSUME LinkInit PROVE LinkInv
  OBVIOUS
<1>1. hand \in [pc : {"tls"}, peer : {None}, frame : {"in"}] /\ deadline \in BOOLEAN /\ socket = "open"
  BY DEF LinkInit
<1>2. /\ hand \in [pc : {"tls", "reply"} \cup Waiting \cup Returned, peer : Relays \cup {None},
                   frame : {"in", "out"}]
      /\ hand.pc = "tls" /\ hand.frame = "in"
  BY <1>1
<1>3. netinfo \in NetInfo /\ netinfo.read = netinfo.offst
  BY NoNetInfoIs DEF LinkInit
<1> QED BY <1>1, <1>2, <1>3 DEF LinkInv, LinkTypeOK, LinkInFrame, LinkVouched, NetInfoInv

\* The step after a cell; NewConn stays in frame if it has taken all of it.
LEMMA ProceedStep ==
  ASSUME LinkTypeOK, NEW to \in Places, NEW read, NEW size, Proceed(to, read, size)
  PROVE  /\ hand' \in [pc : Places, peer : Relays \cup {None}, frame : {"in", "out"}]
         /\ hand'.pc = to /\ hand'.peer = hand.peer
         /\ hand'.frame = Framed(read, size)
<1>1. hand \in [pc : Places, peer : Relays \cup {None}, frame : {"in", "out"}]
  BY DEF LinkTypeOK, Places
<1>2. Framed(read, size) \in {"in", "out"}
  BY <1>1 DEF Framed
<1> QED BY <1>1, <1>2 DEF Proceed

LEMMA GiveUpStep ==
  ASSUME LinkTypeOK, NEW how \in {"failed", "panicked"}, GiveUp(how)
  PROVE  /\ hand' \in [pc : Places, peer : Relays \cup {None}, frame : {"in", "out"}]
         /\ hand'.pc = how
BY DEF LinkTypeOK, GiveUp, Places, Returned

\* Each address adds as much to what is taken as to what is counted.
LEMMA UnserializeIpStep ==
  ASSUME NEW info \in NetInfo, NEW type \in Types
  PROVE  LET n    == IF type = 4 THEN 6 ELSE IF type = 6 THEN 18 ELSE 2
             then == UnserializeIp(info, type)
         IN  /\ then \in NetInfo
             /\ then.read = info.read + n /\ then.offst = info.offst + n
             /\ then.left = info.left
             /\ \A t \in Types : then.seen[t] = info.seen[t] + (IF t = type THEN 1 ELSE 0)
<1> DEFINE n == IF type = 4 THEN 4 ELSE IF type = 6 THEN 16 ELSE 0
           seen == [info.seen EXCEPT ![type] = @ + 1]
<1>1. (CASE type = 4 -> 4 [] type = 6 -> 16 [] OTHER -> 0) = n
  BY DEF Types
<1>2. info.seen \in [Types -> Nat] /\ info.read \in Nat /\ info.offst \in Nat /\ info.left \in Nat
  BY DEF NetInfo
<1>3. seen \in [Types -> Nat] /\ \A t \in Types : seen[t] = info.seen[t] + (IF t = type THEN 1 ELSE 0)
  BY <1>2
<1>4. n \in Nat /\ 1 + 1 + n = (IF type = 4 THEN 6 ELSE IF type = 6 THEN 18 ELSE 2)
  OBVIOUS
<1> HIDE DEF seen
<1>5. UnserializeIp(info, type) =
        [read |-> info.read + 1 + 1 + n, offst |-> info.offst + 1 + 1 + n, left |-> info.left,
         seen |-> seen]
  BY <1>1 DEF UnserializeIp, seen
<1> HIDE DEF n
<1> QED BY <1>2, <1>3, <1>4, <1>5 DEF NetInfo

LEMMA DecodeStep ==
  ASSUME NEW other \in Types, NEW total \in Nat
  PROVE  LET info == DecodeNetInfo(other, total)
         IN  /\ info \in NetInfo /\ info.read = info.offst
             /\ info.read = 4 + 1 + 6 * info.seen[4] + 18 * info.seen[6] + 2 * info.seen[0]
<1> DEFINE none == [t \in Types |-> 0]
           time == [read |-> 4, offst |-> 4, left |-> 0, seen |-> none]
           m    == IF other = 4 THEN 6 ELSE IF other = 6 THEN 18 ELSE 2
           address == UnserializeIp(time, other)
<1>0. none \in [Types -> Nat] /\ \A t \in Types : none[t] = 0
  OBVIOUS
<1>3. [NoNetInfo EXCEPT !.read = 4, !.offst = 4] = time
  <2>1. NoNetInfo = [read |-> 0, offst |-> 0, left |-> 0, seen |-> none]
    BY DEF NoNetInfo
  <2> DEFINE mid == [NoNetInfo EXCEPT !.read = 4]
  <2> HIDE DEF none
  <2>2. mid = [read |-> 4, offst |-> 0, left |-> 0, seen |-> none]
    BY <2>1
  <2> HIDE DEF mid
  <2>3. [mid EXCEPT !.offst = 4] = time
    BY <2>2
  <2> QED BY <2>3 DEF mid
<1> HIDE DEF none
<1>1. time \in NetInfo /\ time.read = 4 /\ time.offst = 4 /\ time.seen = none
  BY <1>0 DEF NetInfo
<1>4. DecodeNetInfo(other, total) = [address EXCEPT !.read = @ + 1, !.offst = @ + 1, !.left = total]
  BY <1>3 DEF DecodeNetInfo
<1> HIDE DEF time
<1>2. /\ address \in NetInfo
      /\ address.read = 4 + m /\ address.offst = 4 + m
      /\ \A t \in Types : address.seen[t] = (IF t = other THEN 1 ELSE 0)
  BY <1>0, <1>1, UnserializeIpStep
<1> HIDE DEF address
<1>5. DecodeNetInfo(other, total) =
        [read |-> address.read + 1, offst |-> address.offst + 1, left |-> total, seen |-> address.seen]
  BY <1>2, <1>4 DEF NetInfo
<1>6. m = 6 * address.seen[4] + 18 * address.seen[6] + 2 * address.seen[0]
  BY <1>2 DEF Types
<1>7. m \in Nat
  OBVIOUS
<1> HIDE DEF m
<1>8. /\ address.read \in Nat /\ address.offst \in Nat /\ address.seen \in [Types -> Nat]
  BY <1>2 DEF NetInfo
<1>9. DecodeNetInfo(other, total) \in NetInfo
  BY <1>5, <1>8 DEF NetInfo
<1> QED
  <2> DEFINE info == DecodeNetInfo(other, total)
  <2>1. info.read = address.read + 1 /\ info.offst = address.offst + 1 /\ info.seen = address.seen
    BY <1>5
  <2> HIDE DEF info
  <2>2. /\ address.seen[4] \in Nat /\ address.seen[6] \in Nat /\ address.seen[0] \in Nat
    BY <1>8 DEF Types
  <2>3. info.read = 4 + 1 + 6 * info.seen[4] + 18 * info.seen[6] + 2 * info.seen[0]
    BY <1>2, <1>6, <1>7, <2>1, <2>2
  <2>4. info.read = info.offst
    BY <1>2, <2>1
  <2> QED BY <1>9, <2>3, <2>4 DEF info

\* NewConn with the identity it has verified.
Vouched(peer, read, size) ==
    hand' = [hand EXCEPT !.pc = "auth", !.peer = peer, !.frame = Framed(read, size)]

LEMMA VouchedStep ==
  ASSUME LinkTypeOK, hand.frame = "in", NEW peer, peer = Peer, NEW read, NEW size, read = size,
         Vouched(peer, read, size)
  PROVE  /\ hand'.pc = "auth" /\ hand'.peer = Peer /\ hand'.frame = "in"
         /\ hand' \in [pc : Places, peer : Relays \cup {None}, frame : {"in", "out"}]
<1>1. hand \in [pc : Places, peer : Relays \cup {None}, frame : {"in", "out"}]
  BY DEF LinkTypeOK, Places
<1>2. "auth" \in Places /\ Peer \in Relays
  BY LinkAssumption DEF Places, Waiting
<1>3. Framed(read, size) = "in"
  BY DEF Framed
<1> QED BY <1>1, <1>2, <1>3 DEF Vouched

\* What does not wrap around is the whole cell.
LEMMA BufferIs ==
  ASSUME NEW length \in Nat, length < 65536
  PROVE  /\ VersionsBuffer(length) \in Int
         /\ VersionsBuffer(length) >= 5 => 5 + (VersionsBuffer(length) - 5) = VersionsSize(length)
<1>1. CASE length < 65531
  <2>1. (5 + length) % 65536 = 5 + length
    BY <1>1
  <2> QED BY <2>1 DEF VersionsBuffer, VersionsSize
<1>2. CASE ~(length < 65531)
  <2>1. (5 + length) % 65536 = length - 65531
    BY <1>2
  <2> QED BY <1>2, <2>1 DEF VersionsBuffer
<1> QED BY <1>1, <1>2

LEMMA HandshakeStep ==
  ASSUME LinkInv, Handshake
  PROVE  LinkInv' /\ socket' = socket /\ hand.pc # "up"
<1> USE DEF Waiting, Returned
<1>b. \A length \in Lengths : length \in Nat /\ length < 65536
  BY LinkAssumption
<1>0. LinkTypeOK /\ LinkInFrame /\ LinkVouched /\ NetInfoInv
  BY DEF LinkInv
<1>8. socket' = socket /\ hand.pc # "up"
  <2>1. CASE SetupTls \/ NegotiateVersion
    BY <2>1 DEF SetupTls, NegotiateVersion
  <2>2. CASE ReadCerts
    BY <2>2, Zenon DEF ReadCerts
  <2>3. CASE DiscardAuthChallenge
    BY <2>3 DEF DiscardAuthChallenge
  <2>4. CASE ReadNetInfo \/ ReadAddress
    BY <2>4 DEF ReadNetInfo, ReadAddress
  <2>5. CASE FinishNetInfo \/ RefuseCell \/ HandshakeFails
    BY <2>5 DEF FinishNetInfo, RefuseCell, HandshakeFails
  <2> QED BY <2>1, <2>2, <2>3, <2>4, <2>5 DEF Handshake
<1>g. ASSUME NEW how \in {"failed", "panicked"}, GiveUp(how), UNCHANGED <<netinfo, deadline, socket>>
      PROVE  LinkInv'
  <2>1. hand'.pc = how /\ hand' \in [pc : Places, peer : Relays \cup {None}, frame : {"in", "out"}]
    BY <1>0, <1>g, GiveUpStep
  <2> QED BY <1>0, <1>g, <2>1
          DEF LinkInv, LinkTypeOK, LinkInFrame, LinkVouched, NetInfoInv, Places
\* A cell that is taken whole, with the identity as it was.
<1>p. ASSUME NEW to \in {"versions", "certs", "netinfo"}, NEW read, NEW size, Proceed(to, read, size),
             read = size, deadline' \in BOOLEAN, UNCHANGED <<netinfo, socket>>, hand.pc \notin Returned,
             hand.pc # "reply", to = "netinfo" => hand.pc = "auth"
      PROVE  LinkInv'
  <2>1. to \in Places
    BY DEF Places
  <2>2. /\ hand'.pc = to /\ hand' \in [pc : Places, peer : Relays \cup {None}, frame : {"in", "out"}]
        /\ hand'.frame = "in" /\ hand'.peer = hand.peer
    BY <1>0, <1>p, <2>1, ProceedStep DEF LinkInFrame, Framed
  <2> QED BY <1>0, <1>p, <2>2
          DEF LinkInv, LinkTypeOK, LinkInFrame, LinkVouched, NetInfoInv, Places
<1>1. CASE SetupTls
  <2>1. CASE Proceed("versions", 0, 0) /\ deadline' = TRUE /\ UNCHANGED <<netinfo, socket>>
    BY <1>1, <1>p, <2>1 DEF SetupTls
  <2> QED BY <1>1, <1>g, <2>1 DEF SetupTls
<1>2. CASE NegotiateVersion
  <2>1. \A length \in Lengths :
          /\ VersionsBuffer(length) \in Int
          /\ VersionsBuffer(length) >= 5 => 5 + (VersionsBuffer(length) - 5) = VersionsSize(length)
    BY <1>b, BufferIs
  <2>2. hand.pc = "versions" /\ UNCHANGED <<netinfo, deadline, socket>> /\ deadline' \in BOOLEAN
    BY <1>0, <1>2 DEF NegotiateVersion, LinkTypeOK
  <2>3. CASE GiveUp("failed") \/ GiveUp("panicked")
    BY <1>g, <2>2, <2>3
  <2>4. CASE \E length \in Lengths :
               /\ VersionsBuffer(length) >= 5
               /\ Proceed("certs", 5 + (VersionsBuffer(length) - 5), VersionsSize(length))
    BY <1>p, <2>1, <2>2, <2>4
  <2>5. \E length \in Lengths :
          \/ VersionsBuffer(length) < 5 /\ GiveUp("panicked")
          \/ /\ ~(VersionsBuffer(length) < 5)
             /\ Proceed("certs", 5 + (VersionsBuffer(length) - 5), VersionsSize(length))
          \/ GiveUp("failed")
    BY <1>2 DEF NegotiateVersion
  <2>6. \A length \in Lengths : ~(VersionsBuffer(length) < 5) => VersionsBuffer(length) >= 5
    BY <2>1
  <2> QED BY <2>3, <2>4, <2>5, <2>6
<1>3. CASE ReadCerts
  <2>0. hand.pc = "certs" /\ UNCHANGED <<netinfo, deadline, socket>>
    BY <1>3, Zenon DEF ReadCerts
  <2>1. CASE GiveUp("panicked")
    BY <1>g, <2>0, <2>1
  <2>2. CASE \E certs \in CertsCells, length \in Lengths \ {0} :
               LET cert4 == CertOf(4, certs)
                   cert5 == CertOf(5, certs)
               IN  IF VerifyPanics(cert4, cert5) THEN GiveUp("panicked")
                   ELSE IF VerifyConnection(cert4, cert5)
                     THEN hand' = [hand EXCEPT !.pc = "auth", !.peer = cert4.ext[2],
                                     !.frame = Framed(ReadHeader + DecodeCerts(length), VariableSize(length))]
                     ELSE GiveUp("failed")
    <3> PICK certs \in CertsCells, length \in Lengths \ {0} :
               IF VerifyPanics(CertOf(4, certs), CertOf(5, certs)) THEN GiveUp("panicked")
                   ELSE IF VerifyConnection(CertOf(4, certs), CertOf(5, certs))
                     THEN hand' = [hand EXCEPT !.pc = "auth", !.peer = CertOf(4, certs).ext[2],
                                     !.frame = Framed(ReadHeader + DecodeCerts(length), VariableSize(length))]
                     ELSE GiveUp("failed")
      BY <2>2
    <3>1. CASE /\ ~VerifyPanics(CertOf(4, certs), CertOf(5, certs))
               /\ VerifyConnection(CertOf(4, certs), CertOf(5, certs))
      <4>1. CertOf(4, certs) # None /\ CertOf(5, certs) # None
        BY <3>1 DEF VerifyPanics, VerifyConnection
      <4>2. CertOf(4, certs).ext = Identity(Peer)
        BY <3>1, <4>1, CertOfIs, VerifiedIsPeer
      <4>3. CertOf(4, certs).ext[2] = Peer
        BY <4>2 DEF Identity
      <4>4. ReadHeader + DecodeCerts(length) = VariableSize(length)
        BY <1>b DEF ReadHeader, DecodeCerts, VariableSize
      <4>5. hand.frame = "in"
        BY <1>0, <2>0 DEF LinkInFrame
      <4>6. Vouched(CertOf(4, certs).ext[2], ReadHeader + DecodeCerts(length), VariableSize(length))
        BY <3>1, Zenon DEF Vouched
      <4>8. /\ hand'.pc = "auth" /\ hand'.peer = Peer /\ hand'.frame = "in"
            /\ hand' \in [pc : Places, peer : Relays \cup {None}, frame : {"in", "out"}]
        BY <1>0, <4>3, <4>4, <4>5, <4>6, VouchedStep
      <4> QED BY <1>0, <2>0, <4>8
              DEF LinkInv, LinkTypeOK, LinkInFrame, LinkVouched, NetInfoInv, Places
    <3> QED BY <1>g, <2>0, <3>1
  <2> QED BY <1>3, <2>1, <2>2 DEF ReadCerts
<1>4. CASE DiscardAuthChallenge
  <2>1. PICK length \in Lengths : Proceed("netinfo", ReadAuthChallenge(length), VariableSize(length))
    BY <1>4 DEF DiscardAuthChallenge
  <2>2. ReadAuthChallenge(length) = VariableSize(length)
    BY <1>b DEF ReadAuthChallenge, VariableSize
  <2>3. hand.pc = "auth" /\ UNCHANGED <<netinfo, deadline, socket>> /\ deadline' \in BOOLEAN
    BY <1>0, <1>4 DEF DiscardAuthChallenge, LinkTypeOK
  <2> QED BY <1>p, <2>1, <2>2, <2>3
<1>5. CASE ReadNetInfo
  <2>1. PICK other \in Types, total \in 0 .. MaxAddrs : netinfo' = DecodeNetInfo(other, total)
    BY <1>5 DEF ReadNetInfo
  <2>2. total \in Nat
    BY LinkAssumption
  <2>3. netinfo' \in NetInfo /\ netinfo'.read = netinfo'.offst /\ netinfo'.read = NetInfoUsed'
    BY <2>1, <2>2, DecodeStep DEF NetInfoUsed
  <2>4. hand.pc = "netinfo" /\ Proceed("addresses", 0, 0) /\ UNCHANGED <<deadline, socket>>
    BY <1>5 DEF ReadNetInfo
  <2>5. "addresses" \in Places
    BY DEF Places
  <2>6. /\ hand'.pc = "addresses" /\ hand' \in [pc : Places, peer : Relays \cup {None}, frame : {"in", "out"}]
        /\ hand'.frame = "in" /\ hand'.peer = hand.peer
    BY <1>0, <2>4, <2>5, ProceedStep DEF LinkInFrame, Framed
  <2> QED BY <1>0, <2>3, <2>4, <2>6
          DEF LinkInv, LinkTypeOK, LinkInFrame, LinkVouched, NetInfoInv, Places
<1>6. CASE ReadAddress
  <2>1. PICK type \in Types : netinfo' = [UnserializeIp(netinfo, type) EXCEPT !.left = @ - 1]
    BY <1>6 DEF ReadAddress
  <2>2. hand.pc = "addresses" /\ netinfo.left > 0 /\ UNCHANGED <<hand, deadline, socket>>
    BY <1>6 DEF ReadAddress
  <2>3. netinfo \in NetInfo /\ netinfo.read = netinfo.offst /\ netinfo.read = NetInfoUsed
    BY <1>0, <2>2 DEF LinkTypeOK, NetInfoInv
  <2> DEFINE next == UnserializeIp(netinfo, type)
             n == IF type = 4 THEN 6 ELSE IF type = 6 THEN 18 ELSE 2
  <2>4. /\ next \in NetInfo /\ next.read = netinfo.read + n /\ next.offst = netinfo.offst + n
        /\ next.left = netinfo.left
        /\ \A t \in Types : next.seen[t] = netinfo.seen[t] + (IF t = type THEN 1 ELSE 0)
    BY <2>3, UnserializeIpStep
  <2> HIDE DEF next
  <2>5. /\ netinfo' \in NetInfo /\ netinfo'.read = next.read /\ netinfo'.offst = next.offst
        /\ netinfo'.seen = next.seen
    <3>1. netinfo' = [next EXCEPT !.left = @ - 1]
      BY <2>1 DEF next
    <3>2. next.left - 1 \in Nat
      BY <2>2, <2>3, <2>4 DEF NetInfo
    <3> QED BY <2>4, <3>1, <3>2 DEF NetInfo
  <2>6. netinfo'.read = NetInfoUsed'
    <3>1. netinfo.seen \in [Types -> Nat] /\ next.seen \in [Types -> Nat]
      BY <2>3, <2>4 DEF NetInfo
    <3>4. /\ netinfo.seen[4] \in Nat /\ netinfo.seen[6] \in Nat /\ netinfo.seen[0] \in Nat
          /\ next.seen[4] = netinfo.seen[4] + (IF type = 4 THEN 1 ELSE 0)
          /\ next.seen[6] = netinfo.seen[6] + (IF type = 6 THEN 1 ELSE 0)
          /\ next.seen[0] = netinfo.seen[0] + (IF type = 0 THEN 1 ELSE 0)
      BY <2>4, <3>1 DEF Types
    <3>2. n = 6 * (next.seen[4] - netinfo.seen[4]) + 18 * (next.seen[6] - netinfo.seen[6])
                + 2 * (next.seen[0] - netinfo.seen[0])
      <4>1. CASE type = 4
        BY <3>4, <4>1
      <4>2. CASE type = 6
        BY <3>4, <4>2
      <4>3. CASE type = 0
        BY <3>4, <4>3
      <4> QED BY <4>1, <4>2, <4>3 DEF Types
    <3>3. n \in Nat
      OBVIOUS
    <3> HIDE DEF n
    <3> QED BY <2>3, <2>4, <2>5, <3>1, <3>2, <3>3 DEF NetInfoUsed, Types
  <2>7. netinfo'.read = netinfo'.offst
    BY <2>3, <2>4, <2>5
  <2> QED BY <1>0, <2>2, <2>5, <2>6, <2>7
          DEF LinkInv, LinkTypeOK, LinkInFrame, LinkVouched, NetInfoInv
<1>7. CASE FinishNetInfo
  <2>1. /\ hand.pc = "addresses" /\ Proceed("reply", ReadHeader + DiscardRest(netinfo), FixedSize)
        /\ UNCHANGED <<netinfo, deadline, socket>>
    BY <1>7 DEF FinishNetInfo
  <2>2. netinfo.read \in Nat /\ netinfo.offst = netinfo.read /\ netinfo.read = NetInfoUsed
    BY <1>0, <2>1 DEF LinkTypeOK, NetInfoInv, NetInfo
  <2>3. ReadHeader + DiscardRest(netinfo) = FixedSize <=> NetInfoUsed <= CELL_BODY_LEN
    <3> PICK used \in Nat : used = netinfo.read /\ used = netinfo.offst /\ used = NetInfoUsed
      BY <2>2
    <3>1. DiscardRest(netinfo) = used + (IF used < CELL_BODY_LEN THEN CELL_BODY_LEN - used ELSE 0)
      BY DEF DiscardRest
    <3>2. CELL_BODY_LEN \in Nat
      BY LinkAssumption
    <3>3. 4 + 1 + (used + (IF used < CELL_BODY_LEN THEN CELL_BODY_LEN - used ELSE 0)) = 4 + 1 + CELL_BODY_LEN
            <=> used <= CELL_BODY_LEN
      BY <3>2
    <3> QED BY <3>1, <3>3 DEF ReadHeader, FixedSize
  <2>4. "reply" \in Places
    BY DEF Places
  <2>5. /\ hand'.pc = "reply" /\ hand' \in [pc : Places, peer : Relays \cup {None}, frame : {"in", "out"}]
        /\ hand'.peer = hand.peer
        /\ hand'.frame = Framed(ReadHeader + DiscardRest(netinfo), FixedSize)
    BY <1>0, <2>1, <2>4, ProceedStep
  <2>6. hand'.frame = "in" <=> NetInfoUsed <= CELL_BODY_LEN
    BY <1>0, <2>1, <2>3, <2>5 DEF LinkInFrame, Framed
  <2>7. NetInfoUsed' = NetInfoUsed
    BY <2>1 DEF NetInfoUsed
  <2> QED BY <1>0, <2>1, <2>2, <2>5, <2>6, <2>7
          DEF LinkInv, LinkTypeOK, LinkInFrame, LinkVouched, NetInfoInv, Places
<1>9. CASE RefuseCell \/ HandshakeFails
  BY <1>9, <1>g DEF RefuseCell, HandshakeFails
<1> QED BY <1>1, <1>2, <1>3, <1>4, <1>5, <1>6, <1>7, <1>8, <1>9 DEF Handshake

LEMMA WriteNetInfoStep ==
  ASSUME LinkInv, WriteNetInfo
  PROVE  LinkInv' /\ socket' = socket /\ hand'.pc = "up"
<1>1. /\ netinfo' \in NetInfo /\ netinfo'.read = netinfo'.offst
      /\ hand.pc = "reply" /\ hand' = [hand EXCEPT !.pc = "up", !.peer = None]
      /\ ~deadline' /\ deadline' \in BOOLEAN /\ socket' = socket
  BY NoNetInfoIs DEF WriteNetInfo
<1>2. hand \in [pc : Places, peer : Relays \cup {None}, frame : {"in", "out"}] /\ LinkTypeOK
  BY DEF LinkInv, LinkTypeOK, Places
<1>3. hand' \in [pc : Places, peer : Relays \cup {None}, frame : {"in", "out"}] /\ hand'.pc = "up"
  BY <1>1, <1>2 DEF Places, Returned
<1> QED BY <1>1, <1>2, <1>3
        DEF LinkInv, LinkTypeOK, LinkInFrame, LinkVouched, NetInfoInv, Waiting, Returned, Places

-----------------------------------------------------------------------------
(* Types                                                                   *)

USE DEF vars, newConn

LEMMA MsgIs ==
  ASSUME NEW c \in Circuits, NEW cmd \in {"CREATE", "CREATED", "RELAY", "DESTROY"}, NEW n \in Nat
  PROVE  /\ Msg(c, cmd, n) \in Cell
         /\ Msg(c, cmd, n).circ = c /\ Msg(c, cmd, n).cmd = cmd /\ Msg(c, cmd, n).n = n
BY DEF Msg, Cell

LEMMA CellIs ==
  ASSUME NEW cell \in Cell
  PROVE  /\ cell.circ \in Circuits /\ cell.cmd \in {"CREATE", "CREATED", "RELAY", "DESTROY"}
         /\ cell.n \in Nat /\ IdOf[cell.circ] \in Ids
BY DEF Cell, Ids

LEMMA NoHandIs ==
  /\ NoHand \in [pc : {"off", "read", "put", "done"}, to : Circuits \cup {None}, cell : Cell \cup {None}]
  /\ NoHand.pc = "read"
BY DEF NoHand

LEMMA TypeInit == Init => TypeOK
<1> SUFFICES ASSUME Init PROVE TypeOK
  OBVIOUS
<1>1. LinkTypeOK
  BY LinkInvInit DEF Init, LinkInv
<1>2. /\ inbound = [c \in Circuits |-> <<>>] /\ inbound \in [Circuits -> Seq(Cell)]
      /\ got \in [Circuits -> Seq(Nat)] /\ \A c \in Circuits : Len(inbound[c]) <= InboundCap
  BY ConnAssumption DEF Init
<1>3. /\ sent \in [Circuits -> Nat] /\ pushed \in [Circuits -> Nat]
      /\ \A c \in Circuits : sent[c] <= MaxSent[c] /\ pushed[c] <= MaxRelay[c]
  BY ConnAssumption DEF Init
<1>4. readLoop \in [pc : {"off", "read", "put", "done"}, to : Circuits \cup {None}, cell : Cell \cup {None}]
      /\ readLoop.pc = "off"
  BY DEF Init, NoHand
<1>5. writeCall \in Seq(Cell) /\ Len(writeCall) <= WriteCap /\ down \in Seq(Cell)
  BY ConnAssumption DEF Init
<1>6. /\ opener \in [Circuits -> {"off", "send", "await", "up", "failed"}]
      /\ cause \in [Circuits -> {None, "failed", "closed", "destroyed"}]
      /\ reader \in [Circuits -> {"off", "running", "done"}] /\ destroying \subseteq Circuits
      /\ registry \in [Ids -> Circuits \cup {None}] /\ guard \in [Ids -> Circuits \cup {None}]
      /\ connCause \in {None, "closed", "read", "write"} /\ writeLoop \in {"off", "running", "done"}
  BY DEF Init
<1> QED BY <1>1, <1>2, <1>3, <1>4, <1>5, <1>6 DEF TypeOK

\* What FailOpen leaves.
LEMMA FailOpenType ==
  ASSUME TypeOK, NEW c \in Circuits, FailOpen(c)
  PROVE  /\ opener' \in [Circuits -> {"off", "send", "await", "up", "failed"}]
         /\ cause' \in [Circuits -> {None, "failed", "closed", "destroyed"}]
         /\ registry' \in [Ids -> Circuits \cup {None}]
BY DEF TypeOK, FailOpen, Cancel, Goto

LEMMA AppendFits ==
  ASSUME NEW S, NEW q \in Seq(S), NEW e \in S, NEW cap \in Nat, Len(q) < cap
  PROVE  Append(q, e) \in Seq(S) /\ Len(Append(q, e)) <= cap
<1>1. Append(q, e) \in Seq(S) /\ Len(Append(q, e)) = Len(q) + 1 /\ Len(q) \in Nat
  BY AppendProperties, LenProperties
<1> QED BY <1>1

LEMMA TailFits ==
  ASSUME NEW S, NEW q \in Seq(S), q # <<>>
  PROVE  Tail(q) \in Seq(S) /\ Len(q) \in Nat /\ Len(Tail(q)) \in Nat /\ Len(q) = Len(Tail(q)) + 1 /\ Head(q) \in S
BY HeadTailProperties, LenProperties, EmptySeq

LEMMA OpenSendType ==
  ASSUME TypeOK, NEW c \in Circuits, OpenSend(c)
  PROVE  TypeOK'
<1>1. CASE FailOpen(c) /\ writeCall' = writeCall
  BY <1>1, FailOpenType, SMTT(30) DEF OpenSend, TypeOK, LinkTypeOK
<1>2. CASE /\ Len(writeCall) < WriteCap /\ writeCall' = Append(writeCall, Msg(c, "CREATE", 0))
           /\ Goto(c, "await") /\ UNCHANGED <<cause, registry>>
  <2>1. writeCall' \in Seq(Cell) /\ Len(writeCall') <= WriteCap
    BY <1>2, AppendFits, MsgIs, ConnAssumption DEF TypeOK
  <2>2. opener' \in [Circuits -> {"off", "send", "await", "up", "failed"}]
    BY <1>2 DEF TypeOK, Goto
  <2> QED BY <1>2, <2>1, <2>2 DEF OpenSend, TypeOK, LinkTypeOK
<1> QED BY <1>1, <1>2 DEF OpenSend

\* Taking a cell out of Inbound leaves a queue that is no longer.
LEMMA TakeType ==
  ASSUME TypeOK, NEW c \in Circuits, inbound[c] # <<>>, inbound' = [inbound EXCEPT ![c] = Tail(@)]
  PROVE  /\ inbound' \in [Circuits -> Seq(Cell)]
         /\ \A b \in Circuits : Len(inbound'[b]) <= InboundCap
         /\ Head(inbound[c]) \in Cell /\ inbound'[c] = Tail(inbound[c])
<1>1. inbound[c] \in Seq(Cell) /\ Len(inbound[c]) <= InboundCap /\ InboundCap \in Nat
  BY ConnAssumption DEF TypeOK
<1>2. /\ Tail(inbound[c]) \in Seq(Cell) /\ Len(inbound[c]) = Len(Tail(inbound[c])) + 1
      /\ Len(Tail(inbound[c])) \in Nat /\ Len(inbound[c]) \in Nat /\ Head(inbound[c]) \in Cell
  BY <1>1, TailFits
<1>3. Len(Tail(inbound[c])) <= InboundCap
  BY <1>1, <1>2
<1> HIDE DEF Cell
<1> QED BY <1>2, <1>3 DEF TypeOK

LEMMA OpenAnswerType ==
  ASSUME TypeOK, NEW c \in Circuits, OpenAnswer(c)
  PROVE  TypeOK'
<1>1. CASE Done(c) /\ FailOpen(c) /\ UNCHANGED <<inbound, reader>>
  BY <1>1, FailOpenType, SMTT(30) DEF OpenAnswer, TypeOK, LinkTypeOK
<1>2. CASE /\ inbound[c] # <<>> /\ inbound' = [inbound EXCEPT ![c] = Tail(@)]
           /\ FailOpen(c) /\ UNCHANGED reader
  <2>1. inbound' \in [Circuits -> Seq(Cell)] /\ \A b \in Circuits : Len(inbound'[b]) <= InboundCap
    BY <1>2, TakeType
  <2> QED BY <1>2, <2>1, FailOpenType, SMTT(30) DEF OpenAnswer, TypeOK, LinkTypeOK
<1>3. CASE /\ inbound[c] # <<>> /\ inbound' = [inbound EXCEPT ![c] = Tail(@)]
           /\ Goto(c, "up") /\ reader' = [reader EXCEPT ![c] = "running"]
           /\ UNCHANGED <<cause, registry>>
  <2>1. /\ opener' \in [Circuits -> {"off", "send", "await", "up", "failed"}]
        /\ reader' \in [Circuits -> {"off", "running", "done"}]
    BY <1>3 DEF TypeOK, Goto
  <2>2. inbound' \in [Circuits -> Seq(Cell)] /\ \A b \in Circuits : Len(inbound'[b]) <= InboundCap
    BY <1>3, TakeType
  <2> QED BY <1>3, <2>1, <2>2 DEF OpenAnswer, TypeOK, LinkTypeOK
<1> QED BY <1>1, <1>2, <1>3 DEF OpenAnswer

LEMMA ReaderTakeType ==
  ASSUME TypeOK, NEW c \in Circuits, ReaderTake(c)
  PROVE  TypeOK'
<1>1. /\ inbound' \in [Circuits -> Seq(Cell)] /\ \A b \in Circuits : Len(inbound'[b]) <= InboundCap
      /\ Head(inbound[c]) \in Cell
  BY TakeType DEF ReaderTake
<1>2. Head(inbound[c]).n \in Nat
  BY <1>1, CellIs
<1>3. got' \in [Circuits -> Seq(Nat)]
  <2>1. got \in [Circuits -> Seq(Nat)] /\ got' \in {got, [got EXCEPT ![c] = Append(@, Head(inbound[c]).n)]}
    BY DEF ReaderTake, TypeOK
  <2>2. Append(got[c], Head(inbound[c]).n) \in Seq(Nat)
    BY <1>2, <2>1, AppendProperties
  <2> QED BY <2>1, <2>2
<1>4. destroying' \subseteq Circuits
  BY DEF ReaderTake, TypeOK
<1> QED BY <1>1, <1>3, <1>4, SMTT(30) DEF ReaderTake, TypeOK, LinkTypeOK

LEMMA ReadCellType ==
  ASSUME TypeOK, ReadCell
  PROVE  TypeOK'
<1>1. down \in Seq(Cell) /\ down' \in Seq(Cell) /\ Head(down) \in Cell
  BY TailFits DEF TypeOK, ReadCell
<1>2. registry[IdOf[Head(down).circ]] \in Circuits \cup {None}
  BY <1>1, CellIs DEF TypeOK
<1>4. /\ readLoop' \in [pc : {"off", "read", "put", "done"}, to : Circuits \cup {None},
                        cell : Cell \cup {None}]
      /\ readLoop'.pc = "put" => readLoop'.to # None /\ readLoop'.cell \in Cell
  <2>1. CASE readLoop' = NoHand
    BY <2>1, NoHandIs
  <2>2. CASE /\ readLoop' = [pc |-> "put", to |-> registry[IdOf[Head(down).circ]], cell |-> Head(down)]
             /\ registry[IdOf[Head(down).circ]] # None
    <3> HIDE DEF Cell
    <3> QED BY <1>1, <1>2, <2>2
  <2> QED BY <2>1, <2>2 DEF ReadCell
<1> QED BY <1>1, <1>4 DEF ReadCell, TypeOK, LinkTypeOK

LEMMA DispatchType ==
  ASSUME TypeOK, Dispatch
  PROVE  TypeOK'
<1> DEFINE c == readLoop.to
<1>1. /\ c \in Circuits /\ readLoop.cell \in Cell /\ inbound \in [Circuits -> Seq(Cell)]
      /\ inbound[c] \in Seq(Cell) /\ InboundCap \in Nat
  BY ConnAssumption DEF TypeOK, Dispatch
<1>2. /\ inbound' \in [Circuits -> Seq(Cell)]
      /\ \A b \in Circuits : Len(inbound'[b]) <= InboundCap
  <2>1. CASE Push(c, readLoop.cell)
    <3>1. Append(inbound[c], readLoop.cell) \in Seq(Cell) /\ Len(Append(inbound[c], readLoop.cell)) <= InboundCap
      BY <1>1, <2>1, AppendFits DEF Push
    <3> HIDE DEF c
    <3> QED BY <1>1, <2>1, <3>1 DEF Push, TypeOK
  <2>2. CASE inbound' = inbound
    BY <2>2 DEF TypeOK
  <2> QED BY <2>1, <2>2 DEF Dispatch
<1>3. /\ readLoop' \in [pc : {"off", "read", "put", "done"}, to : Circuits \cup {None},
                        cell : Cell \cup {None}]
      /\ readLoop'.pc # "put"
  BY NoHandIs DEF Dispatch, TypeOK
<1> QED BY <1>2, <1>3, SMTT(30) DEF Dispatch, TypeOK, LinkTypeOK

LEMMA GuardTakeType ==
  ASSUME TypeOK, NEW cell \in Cell, GuardTake(cell)
  PROVE  guard' \in [Ids -> Circuits \cup {None}] /\ down' \in Seq(Cell)
<1>1. cell.circ \in Circuits /\ IdOf[cell.circ] \in Ids
  BY CellIs
<1>2. /\ guard \in [Ids -> Circuits \cup {None}] /\ down \in Seq(Cell)
  BY DEF TypeOK
<1>3. ASSUME NEW cmd \in {"CREATED", "DESTROY"} PROVE Append(down, Msg(cell.circ, cmd, 0)) \in Seq(Cell)
  BY <1>1, <1>2, MsgIs, AppendProperties
<1> HIDE DEF Cell
<1> QED BY <1>1, <1>2, <1>3 DEF GuardTake

LEMMA WriteCellType ==
  ASSUME TypeOK, WriteCell
  PROVE  TypeOK'
<1>1. Head(writeCall) \in Cell /\ writeCall' \in Seq(Cell) /\ Len(writeCall') <= WriteCap
  <2>1. writeCall \in Seq(Cell) /\ writeCall # <<>> /\ Len(writeCall) <= WriteCap /\ WriteCap \in Nat
        /\ writeCall' = Tail(writeCall)
    BY ConnAssumption DEF TypeOK, WriteCell
  <2>2. /\ Tail(writeCall) \in Seq(Cell) /\ Len(writeCall) = Len(Tail(writeCall)) + 1
        /\ Len(Tail(writeCall)) \in Nat /\ Head(writeCall) \in Cell
    BY <2>1, TailFits
  <2> HIDE DEF Cell
  <2> QED BY <2>1, <2>2
<1>2. guard' \in [Ids -> Circuits \cup {None}] /\ down' \in Seq(Cell)
  <2>1. CASE GuardTake(Head(writeCall))
    BY <1>1, <2>1, GuardTakeType
  <2>2. CASE UNCHANGED <<guard, down>>
    BY <2>2 DEF TypeOK
  <2> QED BY <2>1, <2>2 DEF WriteCell
<1>3. connCause' \in {None, "closed", "read", "write"} /\ writeLoop' \in {"off", "running", "done"}
  BY DEF WriteCell, TypeOK, Fail
<1> QED BY <1>1, <1>2, <1>3 DEF WriteCell, TypeOK, LinkTypeOK

LEMMA CircuitSendType ==
  ASSUME TypeOK, NEW c \in Circuits, CircuitSend(c)
  PROVE  TypeOK'
<1>1. sent[c] \in Nat /\ sent[c] + 1 \in Nat /\ sent[c] + 1 <= MaxSent[c] /\ sent \in [Circuits -> Nat]
  <2>1. sent[c] \in Nat /\ sent[c] < MaxSent[c] /\ MaxSent[c] \in Nat /\ sent \in [Circuits -> Nat]
    BY ConnAssumption DEF TypeOK, CircuitSend
  <2> QED BY <2>1
<1>2. writeCall' \in Seq(Cell) /\ Len(writeCall') <= WriteCap
  BY <1>1, AppendFits, MsgIs, ConnAssumption DEF TypeOK, CircuitSend
<1>3. sent' \in [Circuits -> Nat] /\ \A b \in Circuits : sent'[b] <= MaxSent[b]
  <2>1. sent' = [sent EXCEPT ![c] = sent[c] + 1] /\ \A b \in Circuits : sent[b] <= MaxSent[b]
    BY DEF CircuitSend, TypeOK
  <2> QED BY <1>1, <2>1
<1> QED BY <1>2, <1>3 DEF CircuitSend, TypeOK, LinkTypeOK

LEMMA GuardRelayType ==
  ASSUME TypeOK, NEW c \in Circuits, GuardRelay(c)
  PROVE  TypeOK'
<1>1. pushed[c] \in Nat /\ pushed[c] + 1 \in Nat /\ pushed[c] + 1 <= MaxRelay[c] /\ pushed \in [Circuits -> Nat]
  <2>1. pushed[c] \in Nat /\ pushed[c] < MaxRelay[c] /\ MaxRelay[c] \in Nat /\ pushed \in [Circuits -> Nat]
    BY ConnAssumption DEF TypeOK, GuardRelay
  <2> QED BY <2>1
<1>2. down' \in Seq(Cell)
  BY <1>1, AppendProperties, MsgIs DEF TypeOK, GuardRelay
<1>3. pushed' \in [Circuits -> Nat] /\ \A b \in Circuits : pushed'[b] <= MaxRelay[b]
  <2>1. pushed' = [pushed EXCEPT ![c] = pushed[c] + 1] /\ \A b \in Circuits : pushed[b] <= MaxRelay[b]
    BY DEF GuardRelay, TypeOK
  <2> QED BY <1>1, <2>1
<1> QED BY <1>2, <1>3 DEF GuardRelay, TypeOK, LinkTypeOK

LEMMA GuardDestroyType ==
  ASSUME TypeOK, NEW c \in Circuits, GuardDestroy(c)
  PROVE  TypeOK'
<1>1. down' \in Seq(Cell)
  BY AppendProperties, MsgIs DEF TypeOK, GuardDestroy
<1>2. guard' \in [Ids -> Circuits \cup {None}]
  BY DEF TypeOK, GuardDestroy
<1> QED BY <1>1, <1>2 DEF GuardDestroy, TypeOK, LinkTypeOK

LEMMA QuietType ==
  ASSUME TypeOK, LinkTypeOK',
         UNCHANGED <<inbound, sent, pushed, got, writeCall, down>>,
         opener' \in [Circuits -> {"off", "send", "await", "up", "failed"}],
         cause' \in [Circuits -> {None, "failed", "closed", "destroyed"}],
         reader' \in [Circuits -> {"off", "running", "done"}],
         destroying' \subseteq Circuits,
         registry' \in [Ids -> Circuits \cup {None}],
         guard' \in [Ids -> Circuits \cup {None}],
         connCause' \in {None, "closed", "read", "write"},
         readLoop' \in [pc : {"off", "read", "put", "done"}, to : Circuits \cup {None},
                        cell : Cell \cup {None}],
         readLoop' = readLoop \/ readLoop'.pc # "put",
         writeLoop' \in {"off", "running", "done"}
  PROVE  TypeOK'
BY DEF TypeOK

LEMMA TypeNext == TypeOK /\ LinkInv /\ [Next]_vars => TypeOK' /\ LinkInv'
<1> SUFFICES ASSUME TypeOK, LinkInv, [Next]_vars PROVE TypeOK' /\ LinkInv'
  OBVIOUS
<1>l. ASSUME UNCHANGED newConn, socket' \in {"open", "eof", "closed"} PROVE LinkInv'
  BY <1>l DEF LinkInv, LinkTypeOK, LinkInFrame, LinkVouched, NetInfoInv, NetInfoUsed
<1>t. /\ opener \in [Circuits -> {"off", "send", "await", "up", "failed"}]
      /\ cause \in [Circuits -> {None, "failed", "closed", "destroyed"}]
      /\ reader \in [Circuits -> {"off", "running", "done"}] /\ destroying \subseteq Circuits
      /\ registry \in [Ids -> Circuits \cup {None}] /\ guard \in [Ids -> Circuits \cup {None}]
      /\ connCause \in {None, "closed", "read", "write"}
      /\ readLoop \in [pc : {"off", "read", "put", "done"}, to : Circuits \cup {None},
                       cell : Cell \cup {None}]
      /\ writeLoop \in {"off", "running", "done"} /\ socket \in {"open", "eof", "closed"} /\ LinkTypeOK
  BY DEF TypeOK, LinkTypeOK
<1>1. CASE Connect
  <2>1. LinkInv'
    BY <1>1, HandshakeStep DEF Connect
  <2> QED BY <1>1, <1>t, <2>1, QuietType DEF Connect, LinkInv
<1>2. CASE StartLoops
  <2>1. LinkInv'
    BY <1>2, WriteNetInfoStep DEF StartLoops
  <2> QED BY <1>2, <1>t, <2>1, NoHandIs, QuietType DEF StartLoops, LinkInv
<1>3. ASSUME NEW c \in Circuits,
             Call(c) \/ ReaderExit(c) \/ HandleDestroy(c) \/ CloseCircuit(c)
      PROVE  TypeOK' /\ LinkInv'
  <2>1. UNCHANGED newConn /\ socket' = socket
    BY <1>3 DEF Call, ReaderExit, HandleDestroy, CloseCircuit
  <2>2. LinkInv' /\ LinkTypeOK'
    BY <1>l, <1>t, <2>1 DEF LinkInv
  <2>3. CASE Call(c)
    <3>1. /\ opener' \in [Circuits -> {"off", "send", "await", "up", "failed"}]
          /\ registry' \in [Ids -> Circuits \cup {None}]
      BY <1>t, <2>3 DEF Call, Goto
    <3> QED BY <1>t, <2>2, <2>3, <3>1, QuietType DEF Call
  <2>4. CASE ReaderExit(c)
    <3>1. reader' \in [Circuits -> {"off", "running", "done"}]
      BY <1>t, <2>4 DEF ReaderExit
    <3> QED BY <1>t, <2>2, <2>4, <3>1, QuietType DEF ReaderExit
  <2>5. CASE HandleDestroy(c)
    <3>1. cause' \in [Circuits -> {None, "failed", "closed", "destroyed"}] /\ destroying' \subseteq Circuits
      BY <1>t, <2>5 DEF HandleDestroy, Cancel
    <3> QED BY <1>t, <2>2, <2>5, <3>1, QuietType DEF HandleDestroy
  <2>6. CASE CloseCircuit(c)
    <3>1. cause' \in [Circuits -> {None, "failed", "closed", "destroyed"}]
      BY <1>t, <2>6 DEF CloseCircuit, Cancel
    <3> QED BY <1>t, <2>2, <2>6, <3>1, QuietType DEF CloseCircuit
  <2> QED BY <1>3, <2>2, <2>3, <2>4, <2>5, <2>6
<1>4. ASSUME NEW c \in Circuits,
             OpenSend(c) \/ OpenAnswer(c) \/ ReaderTake(c) \/ CircuitSend(c) \/ GuardRelay(c) \/ GuardDestroy(c)
      PROVE  TypeOK' /\ LinkInv'
  <2>1. UNCHANGED newConn /\ socket' = socket
    BY <1>4 DEF OpenSend, OpenAnswer, ReaderTake, CircuitSend, GuardRelay, GuardDestroy
  <2> QED BY <1>4, <1>l, <1>t, <2>1, OpenSendType, OpenAnswerType, ReaderTakeType, CircuitSendType,
             GuardRelayType, GuardDestroyType
<1>5. CASE ReadCell \/ Dispatch \/ WriteCell
  <2>1. UNCHANGED newConn /\ socket' = socket
    BY <1>5 DEF ReadCell, Dispatch, WriteCell
  <2> QED BY <1>5, <1>l, <1>t, <2>1, ReadCellType, DispatchType, WriteCellType
<1>6. CASE ReadFail \/ WriteExit \/ CloseConn \/ GuardHangsUp
  <2>1. /\ UNCHANGED newConn /\ socket' \in {"open", "eof", "closed"}
        /\ UNCHANGED <<inbound, sent, pushed, got, writeCall, down, opener, cause, reader, destroying, registry>>
    BY <1>6, <1>t DEF ReadFail, WriteExit, CloseConn, GuardHangsUp
  <2>2. LinkInv' /\ LinkTypeOK'
    BY <1>l, <2>1 DEF LinkInv
  <2>3. /\ guard' \in [Ids -> Circuits \cup {None}] /\ connCause' \in {None, "closed", "read", "write"}
        /\ writeLoop' \in {"off", "running", "done"}
    BY <1>6, <1>t DEF ReadFail, WriteExit, CloseConn, GuardHangsUp, Fail
  <2>4. /\ readLoop' \in [pc : {"off", "read", "put", "done"}, to : Circuits \cup {None}, cell : Cell \cup {None}]
        /\ readLoop' = readLoop \/ readLoop'.pc # "put"
    BY <1>6, <1>t DEF ReadFail, WriteExit, CloseConn, GuardHangsUp
  <2> QED BY <1>t, <2>1, <2>2, <2>3, <2>4, QuietType
<1>7. CASE UNCHANGED vars
  <2>1. LinkInv' /\ LinkTypeOK'
    BY <1>7, <1>l, <1>t DEF LinkInv
  <2> QED BY <1>7, <1>t, <2>1, QuietType
<1> QED BY <1>1, <1>2, <1>3, <1>4, <1>5, <1>6, <1>7 DEF Next, Opening, Reading

-----------------------------------------------------------------------------
(* The way of a circuit's cells                                            *)

CreatedOf(c)    == [circ : {c}, cmd : {"CREATED"}, n : Nat]
SameId(cell, c) == IdOf[cell.circ] = IdOf[c]
One(cell, T)    == IF cell \in T THEN 1 ELSE 0

\* A circuit that still has to get all that is sent to it.
Live(c) == opener[c] \in {"send", "await", "up"} /\ ~Done(c)

\* What may follow k CREATED cells and n RELAY cells of c: the RELAY cells come
\* after the CREATED, and what was meant for an earlier owner of the id, or is
\* another CREATED, comes before it.
Fits(c, cell, k, n) ==
    SameId(cell, c) =>
      /\ cell.circ # c \/ cell.cmd = "CREATED" => k = 0
      /\ cell.circ = c /\ cell.cmd = "RELAY" => k > 0 /\ cell.n = n + 1

Segment(c, q, k, n) ==
    \A i \in 0 .. Len(q) - 1 :
      Fits(c, q[i + 1], k + CountTo(q, CreatedOf(c), i), n + CountTo(q, RelayOf(c), i))

Held(c)      == readLoop.pc = "put" /\ readLoop.to = c
HeldOf(c, T) == IF Held(c) THEN One(readLoop.cell, T) ELSE 0
Opened(c)    == IF opener[c] = "up" THEN 1 ELSE 0
Taken(c)     == Len(got[c])

\* How many cells of kind T c will have seen when all that is on its way is
\* there: in Inbound, in the hands of readLoop, and on the link.
InTwo(c, T)   == Count(inbound[c], T) + HeldOf(c, T)
InThree(c, T) == InTwo(c, T) + Count(down, T)

WayOK(c) ==
    /\ Segment(c, inbound[c], Opened(c), Taken(c))
    /\ Held(c) => Fits(c, readLoop.cell, Opened(c) + Count(inbound[c], CreatedOf(c)),
                                         Taken(c) + Count(inbound[c], RelayOf(c)))
    /\ Segment(c, down, Opened(c) + InTwo(c, CreatedOf(c)), Taken(c) + InTwo(c, RelayOf(c)))
    /\ got[c] = [i \in 1 .. Taken(c) |-> i]
    /\ Taken(c) + InThree(c, RelayOf(c)) = pushed[c]

\* The CREATE cells of c's id in a queue: none, or none after c's own.
NoCreate(c, q) == \A i \in 1 .. Len(q) : q[i].cmd = "CREATE" => ~SameId(q[i], c)
OwnIsLast(c, q) ==
    \A i \in 1 .. Len(q) : \A j \in 1 .. Len(q) :
      i < j /\ q[i].cmd = "CREATE" /\ q[i].circ = c => ~(q[j].cmd = "CREATE" /\ SameId(q[j], c))

\* Once the guard has answered, nobody else can have the id.
GuardOK(c) ==
    /\ registry[IdOf[c]] = c
    /\ guard[IdOf[c]] = c => Opened(c) + InThree(c, CreatedOf(c)) > 0
    /\ Opened(c) + InThree(c, CreatedOf(c)) > 0 =>
         opener[c] # "send" /\ guard[IdOf[c]] \in {c, None} /\ NoCreate(c, writeCall)
    /\ OwnIsLast(c, writeCall)
    /\ readLoop.pc = "put" /\ readLoop.cell.circ = c => Held(c)

\* No cell of a circuit is older than its CREATE.
NoneOf(c, q) == \A i \in 1 .. Len(q) : q[i].circ # c
Unborn(c) ==
    /\ guard[IdOf[c]] # c /\ pushed[c] = 0 /\ got[c] = <<>>
    /\ NoneOf(c, down) /\ NoneOf(c, writeCall)
    /\ readLoop.pc = "put" => readLoop.cell.circ # c
    /\ opener[c] = "off" => inbound[c] = <<>> /\ ~Held(c) /\ registry[IdOf[c]] # c

IdsOK ==
    /\ \A i \in Ids : registry[i] # None => IdOf[registry[i]] = i
    /\ readLoop.pc = "put" => SameId(readLoop.cell, readLoop.to)
    /\ \A c \in Circuits : \A i \in 1 .. Len(inbound[c]) : SameId(inbound[c][i], c)

LifeOK ==
    /\ \A c \in Circuits :
         /\ cause[c] # None => opener[c] \in {"up", "failed"}
         /\ opener[c] = "failed" => Done(c)
         /\ reader[c] # "off" => opener[c] = "up"
         /\ c \in destroying => opener[c] = "up"
    /\ readLoop.pc # "off" => hand.pc = "up"

\* No circuit has a cell before NewConn has returned, or on a link out of frame.
OutOK ==
    /\ hand.pc # "up" => \A c \in Circuits : opener[c] = "off" /\ inbound[c] = <<>>
    /\ hand.frame = "out" =>
         /\ \A c \in Circuits : opener[c] # "up" /\ inbound[c] = <<>>
         /\ readLoop.pc # "put"

\* What holds on every link, ...
BaseInv ==
    /\ TypeOK /\ LinkInv /\ LifeOK /\ IdsOK /\ OutOK
    /\ \A c \in Circuits : opener[c] \in {"off", "send"} => Unborn(c)

\* ... and on one in frame.
CircuitsInv ==
    /\ TypeOK /\ LinkInv /\ LifeOK /\ IdsOK
    /\ \A c \in Circuits : opener[c] \in {"off", "send"} => Unborn(c)
    /\ \A c \in Circuits : Live(c) => WayOK(c) /\ GuardOK(c)

LEMMA SegmentAppend ==
  ASSUME NEW c \in Circuits, NEW q \in Seq(Cell), NEW e \in Cell, NEW k \in Nat, NEW n \in Nat,
         Segment(c, q, k, n),
         Fits(c, e, k + Count(q, CreatedOf(c)), n + Count(q, RelayOf(c)))
  PROVE  Segment(c, Append(q, e), k, n)
<1> DEFINE r == Append(q, e)
<1>1. /\ Len(q) \in Nat /\ Len(r) = Len(q) + 1 /\ r[Len(q) + 1] = e
      /\ \A i \in 1 .. Len(q) : r[i] = q[i]
  BY AppendProperties, LenProperties
<1>2. /\ \A i \in 0 .. Len(q) : CountTo(r, CreatedOf(c), i) = CountTo(q, CreatedOf(c), i)
      /\ \A i \in 0 .. Len(q) : CountTo(r, RelayOf(c), i) = CountTo(q, RelayOf(c), i)
  BY CountAppend
<1> HIDE DEF r
<1> SUFFICES ASSUME NEW i \in 0 .. Len(r) - 1
             PROVE  Fits(c, r[i + 1], k + CountTo(r, CreatedOf(c), i), n + CountTo(r, RelayOf(c), i))
  BY DEF Segment, r
<1>3. i \in 0 .. Len(q)
  BY <1>1
<1>4. CASE i = Len(q)
  BY <1>1, <1>2, <1>3, <1>4 DEF Count
<1>5. CASE i # Len(q)
  <2>1. i \in 0 .. Len(q) - 1 /\ r[i + 1] = q[i + 1]
    BY <1>1, <1>3, <1>5
  <2> QED BY <1>2, <1>3, <2>1 DEF Segment
<1> QED BY <1>4, <1>5

LEMMA SegmentTail ==
  ASSUME NEW c \in Circuits, NEW q \in Seq(Cell), q # <<>>, NEW k \in Nat, NEW n \in Nat,
         Segment(c, q, k, n)
  PROVE  /\ Fits(c, Head(q), k, n)
         /\ Segment(c, Tail(q), k + One(Head(q), CreatedOf(c)), n + One(Head(q), RelayOf(c)))
<1> DEFINE r == Tail(q)
           a == One(Head(q), CreatedOf(c))
           b == One(Head(q), RelayOf(c))
<1>1. /\ Len(q) \in Nat /\ Len(r) \in Nat /\ Len(q) = Len(r) + 1 /\ r \in Seq(Cell)
      /\ \A i \in 1 .. Len(r) : r[i] = q[i + 1]
  BY HeadTailProperties, LenProperties, EmptySeq
<1>2. PICK h : h = q[1] /\ h = Head(q)
  BY HeadTailProperties
<1>3. /\ \A i \in 0 .. Len(r) : CountTo(q, CreatedOf(c), i + 1) = CountTo(r, CreatedOf(c), i) + a
      /\ \A i \in 0 .. Len(r) : CountTo(q, RelayOf(c), i + 1) = CountTo(r, RelayOf(c), i) + b
  BY CountTail DEF One
<1>4. /\ CountTo(q, CreatedOf(c), 0) = 0 /\ CountTo(q, RelayOf(c), 0) = 0
      /\ \A i \in Nat : CountTo(r, CreatedOf(c), i) \in Nat /\ CountTo(r, RelayOf(c), i) \in Nat
  BY CountToType
<1>5. a \in Nat /\ b \in Nat
  BY DEF One
<1> HIDE DEF r, a, b
<1>6. Fits(c, h, k, n)
  <2>1. 0 \in 0 .. Len(q) - 1
    BY <1>1
  <2>2. PICK z \in 0 .. Len(q) - 1 : z = 0
    BY <2>1
  <2>3. Fits(c, q[z + 1], k + CountTo(q, CreatedOf(c), z), n + CountTo(q, RelayOf(c), z))
    BY DEF Segment
  <2>4. z + 1 = 1 /\ k + CountTo(q, CreatedOf(c), z) = k /\ n + CountTo(q, RelayOf(c), z) = n
    <3>1. CountTo(q, CreatedOf(c), z) = 0 /\ CountTo(q, RelayOf(c), z) = 0
      BY <1>4, <2>2, Zenon
    <3> QED BY <2>2, <3>1
  <2>5. Fits(c, q[1], k, n)
    BY <2>3, <2>4, Zenon
  <2> QED BY <1>2, <2>5, Zenon
<1>7. ASSUME NEW i \in 0 .. Len(r) - 1
      PROVE  Fits(c, r[i + 1], (k + a) + CountTo(r, CreatedOf(c), i), (n + b) + CountTo(r, RelayOf(c), i))
  <2>1. i + 1 \in 0 .. Len(q) - 1 /\ i \in 0 .. Len(r) /\ i \in Nat /\ r[i + 1] = q[(i + 1) + 1]
    BY <1>1
  <2>2. Fits(c, q[(i + 1) + 1], k + CountTo(q, CreatedOf(c), i + 1), n + CountTo(q, RelayOf(c), i + 1))
    BY <2>1 DEF Segment
  <2>3. /\ k + CountTo(q, CreatedOf(c), i + 1) = (k + a) + CountTo(r, CreatedOf(c), i)
        /\ n + CountTo(q, RelayOf(c), i + 1) = (n + b) + CountTo(r, RelayOf(c), i)
    <3>1. /\ CountTo(q, CreatedOf(c), i + 1) = CountTo(r, CreatedOf(c), i) + a
          /\ CountTo(q, RelayOf(c), i + 1) = CountTo(r, RelayOf(c), i) + b
          /\ CountTo(r, CreatedOf(c), i) \in Nat /\ CountTo(r, RelayOf(c), i) \in Nat
      BY <1>3, <1>4, <2>1, Zenon
    <3> QED BY <1>5, <3>1
  <2> QED BY <2>1, <2>2, <2>3, Zenon
<1>8. Segment(c, r, k + a, n + b)
  BY <1>7 DEF Segment
<1> QED BY <1>2, <1>6, <1>8 DEF r, a, b

-----------------------------------------------------------------------------
(* What leaves the way of a circuit as it is, and what adds to it          *)

LEMMA WayTypes ==
  ASSUME TypeOK, NEW c \in Circuits
  PROVE  /\ inbound[c] \in Seq(Cell) /\ down \in Seq(Cell) /\ writeCall \in Seq(Cell)
         /\ Opened(c) \in Nat /\ Taken(c) \in Nat /\ pushed[c] \in Nat /\ IdOf[c] \in Ids
         /\ \A T : /\ Count(inbound[c], T) \in Nat /\ Count(down, T) \in Nat
                   /\ HeldOf(c, T) \in Nat /\ InTwo(c, T) \in Nat /\ InThree(c, T) \in Nat
<1>1. /\ inbound[c] \in Seq(Cell) /\ down \in Seq(Cell) /\ writeCall \in Seq(Cell)
      /\ Opened(c) \in Nat /\ got[c] \in Seq(Nat) /\ pushed[c] \in Nat /\ IdOf[c] \in Ids
  BY DEF TypeOK, Opened, Ids
<1>2. ASSUME NEW T
      PROVE  /\ Count(inbound[c], T) \in Nat /\ Count(down, T) \in Nat
             /\ HeldOf(c, T) \in Nat /\ InTwo(c, T) \in Nat /\ InThree(c, T) \in Nat
  <2>1. Count(inbound[c], T) \in Nat /\ Count(down, T) \in Nat
    BY <1>1, CountType
  <2>2. HeldOf(c, T) \in Nat
    BY DEF HeldOf, One
  <2> QED BY <2>1, <2>2 DEF InTwo, InThree
<1> QED BY <1>1, <1>2, LenProperties DEF Taken

LEMMA WayFrame ==
  ASSUME NEW c \in Circuits, WayOK(c),
         Opened(c)' = Opened(c), got'[c] = got[c], inbound'[c] = inbound[c], down' = down,
         pushed'[c] = pushed[c],
         readLoop' = readLoop \/ (~Held(c) /\ readLoop'.pc # "put")
  PROVE  WayOK(c)' /\ InThree(c, CreatedOf(c))' = InThree(c, CreatedOf(c))
<1>1. Held(c)' = Held(c) /\ (Held(c) => readLoop'.cell = readLoop.cell)
  BY DEF Held
<1>2. Opened(c)' = Opened(c) /\ Taken(c)' = Taken(c)
  BY DEF Taken
<1>3. /\ HeldOf(c, CreatedOf(c))' = HeldOf(c, CreatedOf(c))
      /\ HeldOf(c, RelayOf(c))' = HeldOf(c, RelayOf(c))
  BY <1>1 DEF HeldOf
<1>4. /\ InTwo(c, CreatedOf(c))' = InTwo(c, CreatedOf(c)) /\ InTwo(c, RelayOf(c))' = InTwo(c, RelayOf(c))
      /\ InThree(c, CreatedOf(c))' = InThree(c, CreatedOf(c))
      /\ InThree(c, RelayOf(c))' = InThree(c, RelayOf(c))
  BY <1>3 DEF InTwo, InThree
<1> QED BY <1>1, <1>2, <1>4 DEF WayOK

\* What the way does not tell of: the id, at the registry and at the guard, and
\* the CREATE cells that are still to be written.
LEMMA GuardFrame ==
  ASSUME NEW c \in Circuits, GuardOK(c),
         Opened(c)' + InThree(c, CreatedOf(c))' = Opened(c) + InThree(c, CreatedOf(c)),
         opener'[c] = "send" => opener[c] = "send",
         registry'[IdOf[c]] = registry[IdOf[c]],
         guard'[IdOf[c]] = guard[IdOf[c]] \/ guard'[IdOf[c]] = None,
         NoCreate(c, writeCall) => NoCreate(c, writeCall'),
         OwnIsLast(c, writeCall'),
         Held(c)' \/ readLoop'.pc # "put" \/ readLoop'.cell.circ # c
  PROVE  GuardOK(c)'
BY ConnAssumption DEF GuardOK

LEMMA Frame ==
  ASSUME NEW c \in Circuits, WayOK(c), GuardOK(c),
         opener'[c] = opener[c], got'[c] = got[c], inbound'[c] = inbound[c], down' = down,
         pushed'[c] = pushed[c],
         readLoop' = readLoop \/ (~Held(c) /\ readLoop'.pc # "put"),
         registry'[IdOf[c]] = registry[IdOf[c]],
         guard'[IdOf[c]] = guard[IdOf[c]] \/ guard'[IdOf[c]] = None,
         NoCreate(c, writeCall) => NoCreate(c, writeCall'),
         OwnIsLast(c, writeCall')
  PROVE  WayOK(c)' /\ GuardOK(c)'
<1>1. Opened(c)' = Opened(c)
  BY DEF Opened
<1>2. WayOK(c)' /\ InThree(c, CreatedOf(c))' = InThree(c, CreatedOf(c))
  BY <1>1, WayFrame, Zenon
<1>3. Held(c)' \/ readLoop'.pc # "put" \/ readLoop'.cell.circ # c
  BY DEF Held, GuardOK
<1> QED BY <1>1, <1>2, <1>3, GuardFrame

\* The same, where writeCall is left alone as well.
LEMMA FrameAll ==
  ASSUME NEW c \in Circuits, WayOK(c), GuardOK(c),
         opener'[c] = opener[c], got'[c] = got[c], inbound'[c] = inbound[c], down' = down,
         pushed'[c] = pushed[c],
         readLoop' = readLoop \/ (~Held(c) /\ readLoop'.pc # "put"),
         registry'[IdOf[c]] = registry[IdOf[c]],
         guard'[IdOf[c]] = guard[IdOf[c]] \/ guard'[IdOf[c]] = None,
         writeCall' = writeCall
  PROVE  WayOK(c)' /\ GuardOK(c)'
<1>1. OwnIsLast(c, writeCall') /\ (NoCreate(c, writeCall) => NoCreate(c, writeCall'))
  BY DEF GuardOK
<1> QED BY <1>1, Frame, Zenon

\* A cell the guard adds.
GuardAdds(c, e) ==
    /\ down' = Append(down, e)
    /\ opener'[c] = opener[c] /\ got'[c] = got[c] /\ inbound'[c] = inbound[c] /\ readLoop' = readLoop
    /\ pushed'[c] = pushed[c] + One(e, RelayOf(c))

LEMMA DownAppend ==
  ASSUME TypeOK, NEW c \in Circuits, WayOK(c), NEW e \in Cell, GuardAdds(c, e),
         Fits(c, e, Opened(c) + InThree(c, CreatedOf(c)), Taken(c) + InThree(c, RelayOf(c)))
  PROVE  /\ WayOK(c)' /\ Opened(c)' = Opened(c) /\ Held(c)' = Held(c)
         /\ InThree(c, CreatedOf(c))' = InThree(c, CreatedOf(c)) + One(e, CreatedOf(c))
<1>1. Held(c)' = Held(c) /\ Opened(c)' = Opened(c) /\ Taken(c)' = Taken(c)
  BY DEF Held, Opened, Taken, GuardAdds
<1>2. /\ InTwo(c, CreatedOf(c))' = InTwo(c, CreatedOf(c)) /\ InTwo(c, RelayOf(c))' = InTwo(c, RelayOf(c))
  BY <1>1 DEF InTwo, HeldOf, GuardAdds
<1>3. /\ down \in Seq(Cell) /\ Opened(c) \in Nat /\ Taken(c) \in Nat /\ pushed[c] \in Nat
      /\ InTwo(c, CreatedOf(c)) \in Nat /\ InTwo(c, RelayOf(c)) \in Nat
      /\ Count(down, CreatedOf(c)) \in Nat /\ Count(down, RelayOf(c)) \in Nat
  BY WayTypes
<1>4. /\ Count(down', CreatedOf(c)) = Count(down, CreatedOf(c)) + One(e, CreatedOf(c))
      /\ Count(down', RelayOf(c)) = Count(down, RelayOf(c)) + One(e, RelayOf(c))
  BY <1>3, CountAppend DEF One, GuardAdds
<1>5. One(e, CreatedOf(c)) \in Nat /\ One(e, RelayOf(c)) \in Nat
  BY DEF One
<1>6. /\ InThree(c, CreatedOf(c)) = InTwo(c, CreatedOf(c)) + Count(down, CreatedOf(c))
      /\ InThree(c, RelayOf(c)) = InTwo(c, RelayOf(c)) + Count(down, RelayOf(c))
      /\ InThree(c, CreatedOf(c))' = InTwo(c, CreatedOf(c)) + Count(down', CreatedOf(c))
      /\ InThree(c, RelayOf(c))' = InTwo(c, RelayOf(c)) + Count(down', RelayOf(c))
  BY <1>2 DEF InThree
<1>7. /\ InThree(c, CreatedOf(c))' = InThree(c, CreatedOf(c)) + One(e, CreatedOf(c))
      /\ InThree(c, RelayOf(c))' = InThree(c, RelayOf(c)) + One(e, RelayOf(c))
  <2>1. InThree(c, CreatedOf(c))' = InThree(c, CreatedOf(c)) + One(e, CreatedOf(c))
    BY <1>3, <1>4, <1>5, <1>6
  <2>2. InThree(c, RelayOf(c))' = InThree(c, RelayOf(c)) + One(e, RelayOf(c))
    BY <1>3, <1>4, <1>5, <1>6
  <2> QED BY <2>1, <2>2
<1>8. Segment(c, down', Opened(c) + InTwo(c, CreatedOf(c)), Taken(c) + InTwo(c, RelayOf(c)))
  <2>1. Segment(c, down, Opened(c) + InTwo(c, CreatedOf(c)), Taken(c) + InTwo(c, RelayOf(c)))
    BY DEF WayOK
  <2>2. /\ (Opened(c) + InTwo(c, CreatedOf(c))) + Count(down, CreatedOf(c)) = Opened(c) + InThree(c, CreatedOf(c))
        /\ (Taken(c) + InTwo(c, RelayOf(c))) + Count(down, RelayOf(c)) = Taken(c) + InThree(c, RelayOf(c))
        /\ Opened(c) + InTwo(c, CreatedOf(c)) \in Nat /\ Taken(c) + InTwo(c, RelayOf(c)) \in Nat
    <3>1. (Opened(c) + InTwo(c, CreatedOf(c))) + Count(down, CreatedOf(c)) = Opened(c) + InThree(c, CreatedOf(c))
      BY <1>3, <1>6
    <3>2. (Taken(c) + InTwo(c, RelayOf(c))) + Count(down, RelayOf(c)) = Taken(c) + InThree(c, RelayOf(c))
      BY <1>3, <1>6
    <3>3. Opened(c) + InTwo(c, CreatedOf(c)) \in Nat
      BY <1>3
    <3>4. Taken(c) + InTwo(c, RelayOf(c)) \in Nat
      BY <1>3
    <3> QED BY <3>1, <3>2, <3>3, <3>4
  <2> QED BY <1>3, <2>1, <2>2, SegmentAppend DEF GuardAdds
<1>9. Taken(c) + InThree(c, RelayOf(c))' = pushed'[c]
  <2>1. Taken(c) + InThree(c, RelayOf(c)) = pushed[c]
    BY DEF WayOK
  <2>2. pushed'[c] = pushed[c] + One(e, RelayOf(c))
    BY DEF GuardAdds
  <2>3. InThree(c, RelayOf(c)) \in Nat
    BY <1>3, <1>6
  <2>4. Taken(c) + (InThree(c, RelayOf(c)) + One(e, RelayOf(c)))
          = (Taken(c) + InThree(c, RelayOf(c))) + One(e, RelayOf(c))
    BY <1>3, <1>5, <2>3
  <2> QED BY <1>7, <2>1, <2>2, <2>4, Zenon
<1>10. WayOK(c)'
  BY <1>1, <1>2, <1>8, <1>9 DEF WayOK, GuardAdds
<1> QED BY <1>1, <1>7, <1>10

\* The next cell of the link goes into readLoop's hands, or is not c's.
ReadsOne(c) ==
    /\ down # <<>> /\ down' = Tail(down)
    /\ opener'[c] = opener[c] /\ got'[c] = got[c] /\ inbound'[c] = inbound[c] /\ pushed'[c] = pushed[c]
    /\ ~Held(c)
    /\ Held(c)' => readLoop'.cell = Head(down)
    /\ ~Held(c)' => One(Head(down), CreatedOf(c)) = 0 /\ One(Head(down), RelayOf(c)) = 0

LEMMA DownTail ==
  ASSUME TypeOK, NEW c \in Circuits, WayOK(c), ReadsOne(c)
  PROVE  /\ WayOK(c)' /\ Opened(c)' = Opened(c)
         /\ InThree(c, CreatedOf(c))' = InThree(c, CreatedOf(c))
<1> DEFINE h == Head(down)
<1>1. Opened(c)' = Opened(c) /\ Taken(c)' = Taken(c)
  BY DEF Opened, Taken, ReadsOne
<1>2. /\ down \in Seq(Cell) /\ Opened(c) \in Nat /\ Taken(c) \in Nat /\ pushed[c] \in Nat
      /\ InTwo(c, CreatedOf(c)) \in Nat /\ InTwo(c, RelayOf(c)) \in Nat
      /\ Count(inbound[c], CreatedOf(c)) \in Nat /\ Count(inbound[c], RelayOf(c)) \in Nat
  BY WayTypes
<1>3. /\ down' \in Seq(Cell)
      /\ Count(down, CreatedOf(c)) = Count(down', CreatedOf(c)) + One(h, CreatedOf(c))
      /\ Count(down, RelayOf(c)) = Count(down', RelayOf(c)) + One(h, RelayOf(c))
  BY <1>2, CountTail, TailFits DEF One, ReadsOne
<1>4. /\ One(h, CreatedOf(c)) \in Nat /\ One(h, RelayOf(c)) \in Nat
      /\ Count(down', CreatedOf(c)) \in Nat /\ Count(down', RelayOf(c)) \in Nat
  BY <1>3, CountType DEF One
<1>5. /\ HeldOf(c, CreatedOf(c)) = 0 /\ HeldOf(c, RelayOf(c)) = 0
      /\ HeldOf(c, CreatedOf(c))' = One(h, CreatedOf(c)) /\ HeldOf(c, RelayOf(c))' = One(h, RelayOf(c))
  BY DEF HeldOf, ReadsOne
<1>6. /\ InTwo(c, CreatedOf(c)) = Count(inbound[c], CreatedOf(c))
      /\ InTwo(c, RelayOf(c)) = Count(inbound[c], RelayOf(c))
      /\ InTwo(c, CreatedOf(c))' = Count(inbound[c], CreatedOf(c)) + One(h, CreatedOf(c))
      /\ InTwo(c, RelayOf(c))' = Count(inbound[c], RelayOf(c)) + One(h, RelayOf(c))
  BY <1>2, <1>5 DEF InTwo, ReadsOne
<1>7. /\ InThree(c, CreatedOf(c))' = InThree(c, CreatedOf(c))
      /\ InThree(c, RelayOf(c))' = InThree(c, RelayOf(c))
  <2>1. InThree(c, CreatedOf(c))' = InTwo(c, CreatedOf(c))' + Count(down', CreatedOf(c))
        /\ InThree(c, RelayOf(c))' = InTwo(c, RelayOf(c))' + Count(down', RelayOf(c))
    BY DEF InThree
  <2>2. InThree(c, CreatedOf(c)) = InTwo(c, CreatedOf(c)) + Count(down, CreatedOf(c))
        /\ InThree(c, RelayOf(c)) = InTwo(c, RelayOf(c)) + Count(down, RelayOf(c))
    BY DEF InThree
  <2>3. InThree(c, CreatedOf(c))' = InThree(c, CreatedOf(c))
    BY <1>2, <1>3, <1>4, <1>6, <2>1, <2>2
  <2>4. InThree(c, RelayOf(c))' = InThree(c, RelayOf(c))
    BY <1>2, <1>3, <1>4, <1>6, <2>1, <2>2
  <2> QED BY <2>3, <2>4
<1>8. /\ Fits(c, h, Opened(c) + InTwo(c, CreatedOf(c)), Taken(c) + InTwo(c, RelayOf(c)))
      /\ Segment(c, down', (Opened(c) + InTwo(c, CreatedOf(c))) + One(h, CreatedOf(c)),
                           (Taken(c) + InTwo(c, RelayOf(c))) + One(h, RelayOf(c)))
  <2>1. Segment(c, down, Opened(c) + InTwo(c, CreatedOf(c)), Taken(c) + InTwo(c, RelayOf(c)))
    BY DEF WayOK
  <2>2. Opened(c) + InTwo(c, CreatedOf(c)) \in Nat
    BY <1>2
  <2>3. Taken(c) + InTwo(c, RelayOf(c)) \in Nat
    BY <1>2
  <2> QED BY <1>2, <2>1, <2>2, <2>3, SegmentTail DEF ReadsOne
<1>9. (Opened(c) + InTwo(c, CreatedOf(c))) + One(h, CreatedOf(c)) = Opened(c) + InTwo(c, CreatedOf(c))'
  BY <1>2, <1>4, <1>6
<1>10. (Taken(c) + InTwo(c, RelayOf(c))) + One(h, RelayOf(c)) = Taken(c) + InTwo(c, RelayOf(c))'
  BY <1>2, <1>4, <1>6
<1>11. Segment(c, down', Opened(c) + InTwo(c, CreatedOf(c))', Taken(c) + InTwo(c, RelayOf(c))')
  BY <1>8, <1>9, <1>10, Zenon
<1>12. Fits(c, h, Opened(c) + Count(inbound[c], CreatedOf(c)), Taken(c) + Count(inbound[c], RelayOf(c)))
  BY <1>6, <1>8, Zenon
<1>13. WayOK(c)'
  <2>1. Segment(c, inbound[c], Opened(c), Taken(c)) /\ got[c] = [i \in 1 .. Taken(c) |-> i]
        /\ Taken(c) + InThree(c, RelayOf(c)) = pushed[c]
    BY DEF WayOK
  <2> QED BY <1>1, <1>7, <1>11, <1>12, <2>1 DEF WayOK, ReadsOne
<1> QED BY <1>1, <1>7, <1>13

\* The cell readLoop holds goes into the circuit's Inbound.
PutsOne(c) ==
    /\ Held(c) /\ ~Held(c)'
    /\ inbound'[c] = Append(inbound[c], readLoop.cell)
    /\ opener'[c] = opener[c] /\ got'[c] = got[c] /\ down' = down /\ pushed'[c] = pushed[c]

LEMMA InboundAppend ==
  ASSUME TypeOK, NEW c \in Circuits, WayOK(c), PutsOne(c)
  PROVE  /\ WayOK(c)' /\ Opened(c)' = Opened(c)
         /\ InThree(c, CreatedOf(c))' = InThree(c, CreatedOf(c))
<1> DEFINE h == readLoop.cell
<1>1. /\ Opened(c)' = Opened(c) /\ Taken(c)' = Taken(c)
  BY DEF Opened, Taken, PutsOne
<1>2. /\ inbound[c] \in Seq(Cell) /\ Opened(c) \in Nat /\ Taken(c) \in Nat
      /\ Count(inbound[c], CreatedOf(c)) \in Nat /\ Count(inbound[c], RelayOf(c)) \in Nat
  BY WayTypes
<1>3. h \in Cell
  BY DEF TypeOK, PutsOne, Held
<1>4. /\ Count(inbound'[c], CreatedOf(c)) = Count(inbound[c], CreatedOf(c)) + One(h, CreatedOf(c))
      /\ Count(inbound'[c], RelayOf(c)) = Count(inbound[c], RelayOf(c)) + One(h, RelayOf(c))
  BY <1>2, <1>3, CountAppend DEF One, PutsOne
<1>5. /\ HeldOf(c, CreatedOf(c)) = One(h, CreatedOf(c)) /\ HeldOf(c, RelayOf(c)) = One(h, RelayOf(c))
      /\ HeldOf(c, CreatedOf(c))' = 0 /\ HeldOf(c, RelayOf(c))' = 0
      /\ One(h, CreatedOf(c)) \in Nat /\ One(h, RelayOf(c)) \in Nat
  BY DEF HeldOf, PutsOne, One
<1>6. /\ InTwo(c, CreatedOf(c))' = InTwo(c, CreatedOf(c))
      /\ InTwo(c, RelayOf(c))' = InTwo(c, RelayOf(c))
  <2>1. /\ InTwo(c, CreatedOf(c))' = Count(inbound'[c], CreatedOf(c)) + HeldOf(c, CreatedOf(c))'
        /\ InTwo(c, RelayOf(c))' = Count(inbound'[c], RelayOf(c)) + HeldOf(c, RelayOf(c))'
    BY DEF InTwo
  <2>2. /\ InTwo(c, CreatedOf(c)) = Count(inbound[c], CreatedOf(c)) + HeldOf(c, CreatedOf(c))
        /\ InTwo(c, RelayOf(c)) = Count(inbound[c], RelayOf(c)) + HeldOf(c, RelayOf(c))
    BY DEF InTwo
  <2> QED BY <1>2, <1>4, <1>5, <2>1, <2>2
<1>7. /\ InThree(c, CreatedOf(c))' = InThree(c, CreatedOf(c))
      /\ InThree(c, RelayOf(c))' = InThree(c, RelayOf(c))
  BY <1>6 DEF InThree, PutsOne
<1>8. Segment(c, inbound'[c], Opened(c), Taken(c))
  <2>1. /\ Segment(c, inbound[c], Opened(c), Taken(c))
        /\ Fits(c, h, Opened(c) + Count(inbound[c], CreatedOf(c)), Taken(c) + Count(inbound[c], RelayOf(c)))
    BY DEF WayOK, PutsOne
  <2> QED BY <1>2, <1>3, <2>1, SegmentAppend DEF PutsOne
<1>9. WayOK(c)'
  <2>1. Segment(c, down, Opened(c) + InTwo(c, CreatedOf(c)), Taken(c) + InTwo(c, RelayOf(c)))
        /\ got[c] = [i \in 1 .. Taken(c) |-> i] /\ Taken(c) + InThree(c, RelayOf(c)) = pushed[c]
    BY DEF WayOK
  <2> QED BY <1>1, <1>6, <1>7, <1>8, <2>1 DEF WayOK, PutsOne
<1> QED BY <1>1, <1>7, <1>9

\* The circuit takes a cell: its CREATED, which opens it, or its next RELAY cell.
GetsOne(c) ==
    /\ inbound[c] # <<>> /\ inbound'[c] = Tail(inbound[c])
    /\ Opened(c)' = Opened(c) + One(Head(inbound[c]), CreatedOf(c))
    /\ Taken(c)' = Taken(c) + One(Head(inbound[c]), RelayOf(c))
    /\ got'[c] = [i \in 1 .. Taken(c)' |-> i]
    /\ readLoop' = readLoop /\ down' = down /\ pushed'[c] = pushed[c]

LEMMA InboundTail ==
  ASSUME TypeOK, NEW c \in Circuits, WayOK(c), GetsOne(c)
  PROVE  /\ WayOK(c)' /\ Held(c)' = Held(c)
         /\ Opened(c)' + InThree(c, CreatedOf(c))' = Opened(c) + InThree(c, CreatedOf(c))
<1> DEFINE h == Head(inbound[c])
<1>1. /\ Held(c)' = Held(c)
      /\ HeldOf(c, CreatedOf(c))' = HeldOf(c, CreatedOf(c)) /\ HeldOf(c, RelayOf(c))' = HeldOf(c, RelayOf(c))
  BY DEF Held, HeldOf, GetsOne
<1>q. inbound[c] \in Seq(Cell)
  BY WayTypes
<1>2. /\ Opened(c) \in Nat /\ Taken(c) \in Nat
      /\ Count(inbound[c], CreatedOf(c)) \in Nat /\ Count(inbound[c], RelayOf(c)) \in Nat
      /\ HeldOf(c, CreatedOf(c)) \in Nat /\ HeldOf(c, RelayOf(c)) \in Nat
      /\ Count(down, CreatedOf(c)) \in Nat /\ Count(down, RelayOf(c)) \in Nat
  BY WayTypes
<1>p. inbound'[c] \in Seq(Cell)
  BY <1>q, TailFits DEF GetsOne
<1>3. /\ Count(inbound[c], CreatedOf(c)) = Count(inbound'[c], CreatedOf(c)) + One(h, CreatedOf(c))
      /\ Count(inbound[c], RelayOf(c)) = Count(inbound'[c], RelayOf(c)) + One(h, RelayOf(c))
  BY <1>q, CountTail DEF One, GetsOne
<1>4. /\ One(h, CreatedOf(c)) \in Nat /\ One(h, RelayOf(c)) \in Nat
      /\ Count(inbound'[c], CreatedOf(c)) \in Nat /\ Count(inbound'[c], RelayOf(c)) \in Nat
  BY <1>p, CountType DEF One
<1>5. /\ Opened(c)' = Opened(c) + One(h, CreatedOf(c))
      /\ Taken(c)' = Taken(c) + One(h, RelayOf(c))
  BY DEF GetsOne
<1>6. /\ Opened(c)' + Count(inbound'[c], CreatedOf(c)) = Opened(c) + Count(inbound[c], CreatedOf(c))
      /\ Opened(c)' \in Nat
  BY <1>2, <1>3, <1>4, <1>5
<1>7. Taken(c)' + Count(inbound'[c], RelayOf(c)) = Taken(c) + Count(inbound[c], RelayOf(c))
  BY <1>2, <1>3, <1>4, <1>5
<1>8. Taken(c)' \in Nat
  BY <1>2, <1>4, <1>5
<1>9. /\ InTwo(c, CreatedOf(c))' = Count(inbound'[c], CreatedOf(c)) + HeldOf(c, CreatedOf(c))
      /\ InTwo(c, RelayOf(c))' = Count(inbound'[c], RelayOf(c)) + HeldOf(c, RelayOf(c))
      /\ InTwo(c, CreatedOf(c)) = Count(inbound[c], CreatedOf(c)) + HeldOf(c, CreatedOf(c))
      /\ InTwo(c, RelayOf(c)) = Count(inbound[c], RelayOf(c)) + HeldOf(c, RelayOf(c))
  BY <1>1 DEF InTwo
<1>10. Opened(c)' + InTwo(c, CreatedOf(c))' = Opened(c) + InTwo(c, CreatedOf(c))
  BY <1>2, <1>4, <1>6, <1>9
<1>11. Taken(c)' + InTwo(c, RelayOf(c))' = Taken(c) + InTwo(c, RelayOf(c))
  BY <1>2, <1>4, <1>7, <1>8, <1>9
<1>12. /\ InThree(c, CreatedOf(c))' = InTwo(c, CreatedOf(c))' + Count(down, CreatedOf(c))
       /\ InThree(c, CreatedOf(c)) = InTwo(c, CreatedOf(c)) + Count(down, CreatedOf(c))
       /\ InThree(c, RelayOf(c))' = InTwo(c, RelayOf(c))' + Count(down, RelayOf(c))
       /\ InThree(c, RelayOf(c)) = InTwo(c, RelayOf(c)) + Count(down, RelayOf(c))
       /\ InTwo(c, CreatedOf(c)) \in Nat /\ InTwo(c, RelayOf(c)) \in Nat
       /\ InTwo(c, CreatedOf(c))' \in Nat /\ InTwo(c, RelayOf(c))' \in Nat
  <2>1. /\ InTwo(c, CreatedOf(c)) \in Nat /\ InTwo(c, RelayOf(c)) \in Nat
        /\ InTwo(c, CreatedOf(c))' \in Nat /\ InTwo(c, RelayOf(c))' \in Nat
    BY <1>2, <1>4, <1>9
  <2> QED BY <2>1 DEF InThree, GetsOne
<1>13. Opened(c)' + InThree(c, CreatedOf(c))' = Opened(c) + InThree(c, CreatedOf(c))
  BY <1>2, <1>6, <1>10, <1>12
<1>14. Taken(c)' + InThree(c, RelayOf(c))' = Taken(c) + InThree(c, RelayOf(c))
  BY <1>2, <1>8, <1>11, <1>12
<1>15. Segment(c, inbound'[c], Opened(c)', Taken(c)')
  <2>1. Segment(c, inbound[c], Opened(c), Taken(c))
    BY DEF WayOK
  <2>2. Segment(c, inbound'[c], Opened(c) + One(h, CreatedOf(c)), Taken(c) + One(h, RelayOf(c)))
    BY <1>q, <1>2, <2>1, SegmentTail DEF GetsOne
  <2> QED BY <1>5, <2>2, Zenon
<1>16. Held(c)' => Fits(c, readLoop'.cell, Opened(c)' + Count(inbound'[c], CreatedOf(c)),
                                          Taken(c)' + Count(inbound'[c], RelayOf(c)))
  <2>1. Held(c) => Fits(c, readLoop.cell, Opened(c) + Count(inbound[c], CreatedOf(c)),
                                         Taken(c) + Count(inbound[c], RelayOf(c)))
    BY DEF WayOK
  <2>2. readLoop' = readLoop
    BY DEF GetsOne
  <2> QED BY <1>1, <1>6, <1>7, <2>1, <2>2, Zenon
<1>17. Segment(c, down', Opened(c)' + InTwo(c, CreatedOf(c))', Taken(c)' + InTwo(c, RelayOf(c))')
  <2>1. Segment(c, down, Opened(c) + InTwo(c, CreatedOf(c)), Taken(c) + InTwo(c, RelayOf(c)))
        /\ down' = down
    BY DEF WayOK, GetsOne
  <2> QED BY <1>10, <1>11, <2>1, Zenon
<1>18. /\ got'[c] = [i \in 1 .. Taken(c)' |-> i] /\ pushed'[c] = pushed[c]
       /\ Taken(c) + InThree(c, RelayOf(c)) = pushed[c]
  BY DEF WayOK, GetsOne
<1>19. WayOK(c)'
  BY <1>14, <1>15, <1>16, <1>17, <1>18 DEF WayOK
<1> QED BY <1>1, <1>13, <1>19

LEMMA CreateAppend ==
  ASSUME NEW c \in Circuits, NEW q \in Seq(Cell), NEW e \in Cell, e.cmd # "CREATE" \/ ~SameId(e, c)
  PROVE  /\ NoCreate(c, q) => NoCreate(c, Append(q, e))
         /\ OwnIsLast(c, q) => OwnIsLast(c, Append(q, e))
<1> DEFINE r == Append(q, e)
<1>1. /\ Len(q) \in Nat /\ Len(r) = Len(q) + 1 /\ r[Len(q) + 1] = e
      /\ \A i \in 1 .. Len(q) : r[i] = q[i]
  BY AppendProperties, LenProperties
<1> HIDE DEF r
<1>2. \A i \in 1 .. Len(r) : i \in 1 .. Len(q) \/ (i = Len(q) + 1 /\ r[i] = e)
  BY <1>1
<1>3. NoCreate(c, q) => NoCreate(c, r)
  BY <1>1, <1>2 DEF NoCreate
<1>4. ASSUME OwnIsLast(c, q) PROVE OwnIsLast(c, r)
  <2> SUFFICES ASSUME NEW i \in 1 .. Len(r), NEW j \in 1 .. Len(r),
                      i < j, r[i].cmd = "CREATE", r[i].circ = c, r[j].cmd = "CREATE", SameId(r[j], c)
               PROVE  FALSE
    BY DEF OwnIsLast
  <2>1. j \in 1 .. Len(q) /\ r[j] = q[j]
    BY <1>1, <1>2
  <2>2. i \in 1 .. Len(q) /\ r[i] = q[i]
    BY <1>1, <2>1
  <2> QED BY <1>4, <2>1, <2>2 DEF OwnIsLast
<1> QED BY <1>3, <1>4 DEF r

LEMMA CreateTail ==
  ASSUME NEW c \in Circuits, NEW q \in Seq(Cell), q # <<>>
  PROVE  /\ NoCreate(c, q) => NoCreate(c, Tail(q)) /\ (Head(q).cmd = "CREATE" => ~SameId(Head(q), c))
         /\ OwnIsLast(c, q) => OwnIsLast(c, Tail(q))
         /\ OwnIsLast(c, q) /\ Head(q).cmd = "CREATE" /\ Head(q).circ = c => NoCreate(c, Tail(q))
<1> DEFINE r == Tail(q)
<1>1. /\ Len(q) \in Nat /\ Len(r) \in Nat /\ Len(q) = Len(r) + 1
      /\ \A i \in 1 .. Len(r) : r[i] = q[i + 1]
  BY HeadTailProperties, LenProperties, EmptySeq
<1>2. PICK z : z \in 1 .. Len(q) /\ z = 1 /\ q[z] = Head(q)
  BY <1>1, HeadTailProperties
<1> HIDE DEF r
<1>3. ASSUME NEW i \in 1 .. Len(r)
      PROVE  i + 1 \in 1 .. Len(q) /\ r[i] = q[i + 1] /\ z < i + 1
  BY <1>1, <1>2
<1>4. NoCreate(c, q) => NoCreate(c, r) /\ (Head(q).cmd = "CREATE" => ~SameId(Head(q), c))
  BY <1>2, <1>3, Zenon DEF NoCreate
<1>5. ASSUME OwnIsLast(c, q) PROVE OwnIsLast(c, r)
  <2> SUFFICES ASSUME NEW i \in 1 .. Len(r), NEW j \in 1 .. Len(r),
                      i < j, r[i].cmd = "CREATE", r[i].circ = c
               PROVE  ~(r[j].cmd = "CREATE" /\ SameId(r[j], c))
    BY DEF OwnIsLast
  <2>1. i + 1 < j + 1
    OBVIOUS
  <2> QED BY <1>3, <1>5, <2>1, Zenon DEF OwnIsLast
<1>6. ASSUME OwnIsLast(c, q), Head(q).cmd = "CREATE", Head(q).circ = c
      PROVE  NoCreate(c, r)
  <2> SUFFICES ASSUME NEW j \in 1 .. Len(r) PROVE r[j].cmd = "CREATE" => ~SameId(r[j], c)
    BY DEF NoCreate
  <2>1. z < j + 1 /\ j + 1 \in 1 .. Len(q) /\ r[j] = q[j + 1]
    BY <1>3
  <2> QED BY <1>2, <1>6, <2>1, Zenon DEF OwnIsLast
<1> QED BY <1>4, <1>5, <1>6 DEF r

LEMMA NoneCount ==
  ASSUME NEW c \in Circuits, NEW q \in Seq(Cell), NoneOf(c, q), NEW n \in 0 .. Len(q)
  PROVE  CountTo(q, CreatedOf(c), n) = 0 /\ CountTo(q, RelayOf(c), n) = 0
<1>1. \A i \in 1 .. n : q[i].circ # c
  BY LenProperties DEF NoneOf
<1>2. /\ {i \in 1 .. n : q[i] \in CreatedOf(c)} = {} /\ {i \in 1 .. n : q[i] \in RelayOf(c)} = {}
  BY <1>1 DEF CreatedOf, RelayOf
<1> QED BY <1>2, FS_EmptySet DEF CountTo

\* Two circuits that still wait for cells do not share an id.
LEMMA OwnId ==
  ASSUME CircuitsInv, NEW b \in Circuits, NEW c \in Circuits, Live(b), Live(c), IdOf[b] = IdOf[c]
  PROVE  b = c
BY DEF CircuitsInv, GuardOK

\* A circuit that has not been opened has nothing on its way.
LEMMA UnbornWay ==
  ASSUME TypeOK, NEW c \in Circuits, Unborn(c), opener[c] = "off"
  PROVE  WayOK(c) /\ Opened(c) = 0 /\ InThree(c, CreatedOf(c)) = 0
<1>1. /\ inbound[c] = <<>> /\ ~Held(c) /\ got[c] = <<>> /\ pushed[c] = 0 /\ NoneOf(c, down)
      /\ down \in Seq(Cell) /\ Len(down) \in Nat
  BY LenProperties DEF Unborn, TypeOK
<1>2. Opened(c) = 0 /\ Taken(c) = 0
  BY <1>1, EmptySeq DEF Opened, Taken
<1>3. /\ Count(inbound[c], CreatedOf(c)) = 0 /\ Count(inbound[c], RelayOf(c)) = 0
  BY <1>1, CountEmpty
<1>4. HeldOf(c, CreatedOf(c)) = 0 /\ HeldOf(c, RelayOf(c)) = 0
  BY <1>1 DEF HeldOf
<1>5. /\ Count(down, CreatedOf(c)) = 0 /\ Count(down, RelayOf(c)) = 0
  BY <1>1, NoneCount DEF Count
<1>6. InTwo(c, CreatedOf(c)) = 0 /\ InTwo(c, RelayOf(c)) = 0
  BY <1>3, <1>4 DEF InTwo
<1>7. InThree(c, CreatedOf(c)) = 0 /\ InThree(c, RelayOf(c)) = 0
  BY <1>5, <1>6 DEF InThree
<1>8. Segment(c, <<>>, 0, 0)
  BY EmptySeq DEF Segment
<1>9. Segment(c, down, 0, 0)
  <2> SUFFICES ASSUME NEW i \in 0 .. Len(down) - 1
               PROVE  Fits(c, down[i + 1], 0 + CountTo(down, CreatedOf(c), i), 0 + CountTo(down, RelayOf(c), i))
    BY DEF Segment
  <2>1. i \in 0 .. Len(down) /\ i + 1 \in 1 .. Len(down)
    BY <1>1
  <2>2. /\ CountTo(down, CreatedOf(c), i) = 0 /\ down[i + 1].circ # c
    BY <1>1, <2>1, NoneCount DEF NoneOf
  <2> QED BY <2>2 DEF Fits
<1>10. got[c] = [i \in 1 .. 0 |-> i]
  BY <1>1
<1>11. 0 + 0 = 0
  OBVIOUS
<1> QED BY <1>1, <1>2, <1>6, <1>7, <1>8, <1>9, <1>10, <1>11 DEF WayOK

-----------------------------------------------------------------------------
(* A live circuit's way under every action                                 *)

LiveOK(c) == Live(c) => WayOK(c) /\ GuardOK(c)

LEMMA LiveWas ==
  ASSUME CircuitsInv, NEW c \in Circuits, Live(c)
  PROVE  TypeOK /\ WayOK(c) /\ GuardOK(c) /\ cause[c] = None /\ connCause = None
BY DEF CircuitsInv, Live, Done

\* Once the connection has a cause, no circuit waits for anything.
LEMMA DeadStep ==
  ASSUME connCause' # None, NEW c \in Circuits
  PROVE  LiveOK(c)'
BY DEF LiveOK, Live, Done

LEMMA QuietStep ==
  ASSUME CircuitsInv, NEW c \in Circuits,
         UNCHANGED <<opener, inbound, got, registry, down, pushed, writeCall, connCause>>,
         cause'[c] = None => cause[c] = None,
         readLoop' = readLoop \/ (~Held(c) /\ readLoop'.pc # "put"),
         guard'[IdOf[c]] = guard[IdOf[c]] \/ guard'[IdOf[c]] = None
  PROVE  LiveOK(c)'
<1> SUFFICES ASSUME Live(c)' PROVE WayOK(c)' /\ GuardOK(c)'
  BY DEF LiveOK
<1>1. Live(c)
  BY DEF Live, Done
<1> QED BY <1>1, LiveWas, FrameAll

LEMMA CallStep ==
  ASSUME CircuitsInv, NEW d \in Circuits, Call(d), NEW c \in Circuits
  PROVE  LiveOK(c)'
<1> SUFFICES ASSUME Live(c)' PROVE WayOK(c)' /\ GuardOK(c)'
  BY DEF LiveOK
<1>1. /\ TypeOK /\ opener \in [Circuits -> {"off", "send", "await", "up", "failed"}]
      /\ registry \in [Ids -> Circuits \cup {None}] /\ IdOf[d] \in Ids
      /\ registry'[IdOf[d]] = d /\ opener'[d] = "send" /\ opener[d] = "off"
      /\ UNCHANGED <<cause, inbound, reader, destroying, connCause, socket, readLoop,
                     writeLoop, writeCall, down, sent, guard, pushed, got>>
  BY DEF Call, Goto, CircuitsInv, TypeOK, Ids
<1>2. CASE c # d
  <2>1. opener'[c] = opener[c] /\ Live(c)
    BY <1>1, <1>2 DEF Call, Goto, Live, Done
  <2>2. opener[c] # "off" /\ ~Done(c)
    BY <2>1 DEF Live
  <2>3. IdOf[c] # IdOf[d]
    BY <1>2, <2>2 DEF Call
  <2>4. registry'[IdOf[c]] = registry[IdOf[c]]
    BY <1>1, <2>3 DEF Call, Ids
  <2> QED BY <1>1, <2>1, <2>4, LiveWas, FrameAll
<1>3. CASE c = d
  <2>1. Unborn(c)
    BY <1>1, <1>3 DEF CircuitsInv
  <2>2. WayOK(c) /\ Opened(c) = 0 /\ InThree(c, CreatedOf(c)) = 0
    BY <1>1, <1>3, <2>1, UnbornWay
  <2>3. Opened(c)' = 0
    BY <1>1, <1>3 DEF Opened
  <2>4. WayOK(c)' /\ InThree(c, CreatedOf(c))' = 0
    BY <1>1, <2>2, <2>3, WayFrame
  <2>5. ~(Opened(c)' + InThree(c, CreatedOf(c))' > 0)
    BY <2>3, <2>4
  <2>6. guard'[IdOf[c]] # c
    BY <1>1, <2>1 DEF Unborn
  <2>7. OwnIsLast(c, writeCall') /\ (readLoop'.pc = "put" => readLoop'.cell.circ # c)
    BY <1>1, <2>1 DEF Unborn, NoneOf, OwnIsLast
  <2>8. registry'[IdOf[c]] = c
    BY <1>1, <1>3
  <2> QED BY <2>4, <2>5, <2>6, <2>7, <2>8 DEF GuardOK
<1> QED BY <1>2, <1>3

\* A call that fails clears the entry of no other live circuit.
LEMMA FailOpenStep ==
  ASSUME CircuitsInv, NEW d \in Circuits, FailOpen(d), opener[d] \in {"send", "await"},
         UNCHANGED <<connCause, got, down, pushed, readLoop, guard, writeCall>>,
         NEW c \in Circuits, c # d => inbound'[c] = inbound[c]
  PROVE  LiveOK(c)'
<1>1. CASE connCause # None
  BY <1>1, DeadStep
<1>2. CASE connCause = None
  <2> SUFFICES ASSUME Live(c)' PROVE WayOK(c)' /\ GuardOK(c)'
    BY DEF LiveOK
  <2>1. /\ opener \in [Circuits -> {"off", "send", "await", "up", "failed"}]
        /\ cause \in [Circuits -> {None, "failed", "closed", "destroyed"}]
        /\ registry \in [Ids -> Circuits \cup {None}]
    BY DEF CircuitsInv, TypeOK
  <2>2. c # d
    <3>1. opener'[d] = "failed"
      BY <2>1 DEF FailOpen, Goto
    <3> QED BY <3>1 DEF Live
  <2>3. Live(d)
    BY <1>2 DEF CircuitsInv, LifeOK, Live, Done
  <2>4. opener'[c] = opener[c] /\ cause'[c] = cause[c]
    BY <2>1, <2>2 DEF FailOpen, Goto, Cancel
  <2>5. Live(c)
    BY <2>4 DEF Live, Done
  <2>6. IdOf[c] # IdOf[d]
    BY <2>2, <2>3, <2>5, OwnId
  <2>7. registry'[IdOf[c]] = registry[IdOf[c]]
    BY <2>1, <2>6 DEF FailOpen, Ids
  <2> QED BY <2>2, <2>4, <2>5, <2>7, LiveWas, FrameAll
<1> QED BY <1>1, <1>2

LEMMA OpenSendStep ==
  ASSUME CircuitsInv, NEW d \in Circuits, OpenSend(d), NEW c \in Circuits
  PROVE  LiveOK(c)'
<1> DEFINE e == Msg(d, "CREATE", 0)
<1>1. CASE FailOpen(d) /\ UNCHANGED writeCall
  BY <1>1, FailOpenStep DEF OpenSend
<1>2. CASE writeCall' = Append(writeCall, e) /\ Goto(d, "await") /\ UNCHANGED <<cause, registry>>
  <2> SUFFICES ASSUME Live(c)' PROVE WayOK(c)' /\ GuardOK(c)'
    BY DEF LiveOK
  <2>1. /\ opener \in [Circuits -> {"off", "send", "await", "up", "failed"}] /\ writeCall \in Seq(Cell)
        /\ opener[d] = "send" /\ e \in Cell /\ e.circ = d /\ e.cmd = "CREATE"
        /\ UNCHANGED <<inbound, destroying, connCause, readLoop, down, guard, pushed, got>>
    BY MsgIs DEF CircuitsInv, TypeOK, OpenSend
  <2>2. opener'[d] = "await" /\ (c # d => opener'[c] = opener[c])
    BY <1>2, <2>1 DEF Goto
  <2>3. Live(c) /\ connCause = None
    BY <1>2, <2>1, <2>2 DEF Live, Done
  <2>4. Live(d)
    BY <2>1, <2>3 DEF CircuitsInv, LifeOK, Live, Done
  <2>5. CASE c # d
    <3>1. ~SameId(e, c)
      BY <2>1, <2>3, <2>4, <2>5, OwnId DEF SameId
    <3>2. /\ NoCreate(c, writeCall) => NoCreate(c, writeCall')
          /\ OwnIsLast(c, writeCall')
      BY <1>2, <2>1, <2>3, <3>1, CreateAppend, LiveWas DEF GuardOK
    <3> HIDE DEF e
    <3> QED BY <1>2, <2>1, <2>2, <2>3, <2>5, <3>2, LiveWas, Frame
  <2>6. CASE c = d
    <3>1. WayOK(c) /\ GuardOK(c) /\ Unborn(c)
      BY <2>1, <2>3, <2>6, LiveWas DEF CircuitsInv
    <3>2. Opened(c)' = Opened(c)
      BY <2>1, <2>2, <2>6 DEF Opened
    <3>3. WayOK(c)' /\ InThree(c, CreatedOf(c))' = InThree(c, CreatedOf(c))
      BY <2>1, <3>1, <3>2, WayFrame
    <3>4. ~(Opened(c) + InThree(c, CreatedOf(c)) > 0)
      BY <2>1, <2>6, <3>1 DEF GuardOK
    <3>5. OwnIsLast(c, writeCall')
      <4>1. /\ Len(writeCall) \in Nat /\ Len(writeCall') = Len(writeCall) + 1
            /\ \A i \in 1 .. Len(writeCall) : writeCall'[i] = writeCall[i] /\ writeCall[i].circ # c
        BY <1>2, <2>1, <3>1, AppendProperties, LenProperties DEF Unborn, NoneOf
      <4> SUFFICES ASSUME NEW i \in 1 .. Len(writeCall'), NEW j \in 1 .. Len(writeCall'),
                          i < j, writeCall'[i].circ = c
                   PROVE  FALSE
        BY DEF OwnIsLast
      <4>2. i \in 1 .. Len(writeCall)
        BY <4>1
      <4> QED BY <4>1, <4>2
    <3>6. guard'[IdOf[c]] # c /\ registry'[IdOf[c]] = c
      BY <1>2, <2>1, <3>1 DEF Unborn, GuardOK
    <3>7. Held(c)' \/ readLoop'.pc # "put" \/ readLoop'.cell.circ # c
      BY <2>1, <3>1 DEF Unborn
    <3> QED BY <3>2, <3>3, <3>4, <3>5, <3>6, <3>7 DEF GuardOK
  <2> QED BY <2>5, <2>6
<1> QED BY <1>1, <1>2 DEF OpenSend

LEMMA OpenAnswerStep ==
  ASSUME CircuitsInv, NEW d \in Circuits, OpenAnswer(d), NEW c \in Circuits
  PROVE  LiveOK(c)'
<1> DEFINE h == Head(inbound[d])
<1>1. /\ opener \in [Circuits -> {"off", "send", "await", "up", "failed"}] /\ opener[d] = "await"
      /\ inbound \in [Circuits -> Seq(Cell)] /\ inbound[d] \in Seq(Cell)
      /\ UNCHANGED <<connCause, readLoop, writeCall, down, guard, pushed, got>>
  BY DEF OpenAnswer, CircuitsInv, TypeOK
<1>2. CASE FailOpen(d) /\ (inbound' = [inbound EXCEPT ![d] = Tail(@)] \/ UNCHANGED inbound)
  <2>1. c # d => inbound'[c] = inbound[c]
    BY <1>1, <1>2
  <2> QED BY <1>1, <1>2, <2>1, FailOpenStep
<1>3. CASE /\ inbound[d] # <<>> /\ inbound' = [inbound EXCEPT ![d] = Tail(@)]
           /\ h.cmd = "CREATED" /\ h.circ = d /\ Goto(d, "up") /\ UNCHANGED <<cause, registry>>
  <2> SUFFICES ASSUME Live(c)' PROVE WayOK(c)' /\ GuardOK(c)'
    BY DEF LiveOK
  <2>1. opener'[d] = "up" /\ (c # d => opener'[c] = opener[c] /\ inbound'[c] = inbound[c])
    BY <1>1, <1>3 DEF Goto
  <2>2. Live(c)
    BY <1>1, <1>3, <2>1 DEF Live, Done
  <2>3. CASE c # d
    BY <1>1, <1>3, <2>1, <2>2, <2>3, LiveWas, FrameAll
  <2>4. CASE c = d
    <3>1. h \in Cell /\ inbound'[c] = Tail(inbound[c])
      BY <1>1, <1>3, <2>4, TailFits
    <3>2. One(h, CreatedOf(c)) = 1 /\ One(h, RelayOf(c)) = 0
      BY <1>3, <2>4, <3>1 DEF One, CreatedOf, RelayOf, Cell
    <3>3. Opened(c) = 0 /\ Opened(c)' = 1
      BY <1>1, <2>1, <2>4 DEF Opened
    <3>4. Taken(c)' = Taken(c) /\ Taken(c) \in Nat /\ got[c] = [i \in 1 .. Taken(c) |-> i] /\ got'[c] = got[c]
      BY <1>1, <2>2, LiveWas, WayTypes DEF Taken, WayOK
    <3>5. /\ Opened(c)' = Opened(c) + One(h, CreatedOf(c)) /\ Taken(c)' = Taken(c) + One(h, RelayOf(c))
      BY <3>2, <3>3, <3>4
    <3>6. GetsOne(c)
      BY <1>1, <1>3, <2>4, <3>1, <3>4, <3>5 DEF GetsOne
    <3>7. /\ WayOK(c)' /\ Held(c)' = Held(c)
          /\ Opened(c)' + InThree(c, CreatedOf(c))' = Opened(c) + InThree(c, CreatedOf(c))
      BY <2>2, <3>6, LiveWas, InboundTail
    <3>8. /\ OwnIsLast(c, writeCall') /\ (NoCreate(c, writeCall) => NoCreate(c, writeCall'))
          /\ Held(c)' \/ readLoop'.pc # "put" \/ readLoop'.cell.circ # c
      BY <1>1, <2>2, <3>7, LiveWas DEF GuardOK
    <3>9. opener'[c] # "send" /\ registry'[IdOf[c]] = registry[IdOf[c]] /\ guard'[IdOf[c]] = guard[IdOf[c]]
      BY <1>1, <1>3, <2>1, <2>4
    <3> QED BY <2>2, <3>7, <3>8, <3>9, LiveWas, GuardFrame
  <2> QED BY <2>3, <2>4
<1> QED BY <1>1, <1>2, <1>3 DEF OpenAnswer

LEMMA ReaderTakeStep ==
  ASSUME CircuitsInv, NEW d \in Circuits, ReaderTake(d), NEW c \in Circuits
  PROVE  LiveOK(c)'
<1> DEFINE h == Head(inbound[d])
<1> SUFFICES ASSUME Live(c)' PROVE WayOK(c)' /\ GuardOK(c)'
  BY DEF LiveOK
<1>1. /\ inbound \in [Circuits -> Seq(Cell)] /\ inbound[d] \in Seq(Cell) /\ got \in [Circuits -> Seq(Nat)]
      /\ inbound[d] # <<>> /\ inbound' = [inbound EXCEPT ![d] = Tail(@)] /\ reader[d] = "running"
      /\ got' = IF h.cmd = "RELAY" THEN [got EXCEPT ![d] = Append(@, h.n)] ELSE got
      /\ UNCHANGED <<opener, cause, registry, connCause, readLoop, writeCall, down, guard, pushed>>
  BY DEF ReaderTake, CircuitsInv, TypeOK
<1>2. Live(c)
  BY <1>1 DEF Live, Done
<1>3. CASE c # d
  <2>1. inbound'[c] = inbound[c] /\ got'[c] = got[c]
    BY <1>1, <1>3
  <2> QED BY <1>1, <1>2, <2>1, LiveWas, FrameAll
<1>4. CASE c = d
  <2>1. h \in Cell /\ inbound'[c] = Tail(inbound[c]) /\ SameId(h, c)
    <3>1. h \in Cell /\ inbound'[c] = Tail(inbound[c])
      BY <1>1, <1>4, TailFits
    <3>2. PICK z : z \in 1 .. Len(inbound[c]) /\ z = 1 /\ inbound[c][z] = h
      BY <1>1, <1>4, HeadTailProperties, LenProperties, EmptySeq
    <3> QED BY <3>1, <3>2, Zenon DEF CircuitsInv, IdsOK
  <2>2. Opened(c) = 1 /\ Opened(c)' = 1
    BY <1>1, <1>4 DEF CircuitsInv, LifeOK, Opened
  <2>3. Taken(c) \in Nat /\ got[c] = [i \in 1 .. Taken(c) |-> i] /\ Segment(c, inbound[c], Opened(c), Taken(c))
    BY <1>2, LiveWas, WayTypes DEF WayOK
  <2>4. Fits(c, h, Opened(c), Taken(c))
    <3>1. Opened(c) \in Nat
      BY <2>2
    <3> HIDE DEF h
    <3> QED BY <1>1, <1>4, <2>3, <3>1, SegmentTail DEF h
  <2>5. h.circ = c /\ h.cmd # "CREATED" /\ (h.cmd = "RELAY" => h.n = Taken(c) + 1)
    BY <2>1, <2>2, <2>4 DEF Fits
  <2>6. One(h, CreatedOf(c)) = 0 /\ One(h, RelayOf(c)) = (IF h.cmd = "RELAY" THEN 1 ELSE 0)
    BY <2>1, <2>5 DEF One, CreatedOf, RelayOf, Cell
  <2>7. Taken(c)' = Taken(c) + One(h, RelayOf(c)) /\ got'[c] = [i \in 1 .. Taken(c)' |-> i]
    <3>1. CASE h.cmd = "RELAY"
      <4>1. got[c] \in Seq(Nat) /\ got'[c] = Append(got[c], Taken(c) + 1) /\ Taken(c) + 1 \in Nat
        BY <1>1, <1>4, <2>3, <2>5, <3>1
      <4>2. PICK q : q = got[c] /\ q \in Seq(Nat) /\ Len(q) = Taken(c)
        BY <4>1 DEF Taken
      <4>3. PICK m : m = Taken(c)
        OBVIOUS
      <4>4. q = [i \in 1 .. m |-> i] /\ m \in Nat /\ Len(q) = m
        BY <2>3, <4>2, <4>3
      <4>5. Append(q, m + 1) = [i \in 1 .. m + 1 |-> i] /\ Len(Append(q, m + 1)) = m + 1
        <5>1. /\ Append(q, m + 1) = [i \in 1 .. Len(Append(q, m + 1)) |-> Append(q, m + 1)[i]]
              /\ Len(Append(q, m + 1)) = m + 1 /\ Append(q, m + 1)[m + 1] = m + 1
              /\ \A i \in 1 .. m : Append(q, m + 1)[i] = q[i]
          BY <4>2, <4>4, AppendProperties, LenProperties
        <5>2. \A i \in 1 .. m + 1 : Append(q, m + 1)[i] = i
          BY <4>4, <5>1
        <5> QED BY <5>1, <5>2
      <4>6. Taken(c)' = Len(Append(q, m + 1))
        BY <4>1, <4>2, <4>3 DEF Taken
      <4>7. One(h, RelayOf(c)) = 1
        BY <2>6, <3>1
      <4> QED BY <4>1, <4>2, <4>3, <4>5, <4>6, <4>7
    <3>2. CASE h.cmd # "RELAY"
      <4>1. got'[c] = got[c] /\ Taken(c)' = Taken(c) /\ One(h, RelayOf(c)) = 0
        BY <1>1, <2>6, <3>2 DEF Taken
      <4> QED BY <2>3, <4>1
    <3> QED BY <3>1, <3>2
  <2>8. Opened(c)' = Opened(c) + One(h, CreatedOf(c))
    BY <2>2, <2>6
  <2>9. GetsOne(c)
    <3> HIDE DEF h
    <3> QED BY <1>1, <1>4, <2>1, <2>7, <2>8 DEF GetsOne, h
  <2>10. /\ WayOK(c)' /\ Held(c)' = Held(c)
         /\ Opened(c)' + InThree(c, CreatedOf(c))' = Opened(c) + InThree(c, CreatedOf(c))
    BY <1>2, <2>9, LiveWas, InboundTail
  <2>11. /\ OwnIsLast(c, writeCall') /\ (NoCreate(c, writeCall) => NoCreate(c, writeCall'))
         /\ Held(c)' \/ readLoop'.pc # "put" \/ readLoop'.cell.circ # c
    BY <1>1, <1>2, <2>10, LiveWas DEF GuardOK
  <2> QED BY <1>1, <1>2, <2>10, <2>11, LiveWas, GuardFrame
<1> QED BY <1>3, <1>4

LEMMA CircuitSendStep ==
  ASSUME CircuitsInv, NEW d \in Circuits, CircuitSend(d), NEW c \in Circuits
  PROVE  LiveOK(c)'
<1> DEFINE e == Msg(d, "RELAY", sent[d] + 1)
<1> SUFFICES ASSUME Live(c)' PROVE WayOK(c)' /\ GuardOK(c)'
  BY DEF LiveOK
<1>1. /\ e \in Cell /\ e.cmd = "RELAY" /\ writeCall \in Seq(Cell) /\ writeCall' = Append(writeCall, e)
      /\ UNCHANGED <<opener, cause, inbound, registry, connCause, readLoop, down, guard, pushed, got>>
  <2>1. sent[d] + 1 \in Nat /\ writeCall \in Seq(Cell)
    BY DEF CircuitsInv, TypeOK
  <2> QED BY <2>1, MsgIs DEF CircuitSend
<1> HIDE DEF e
<1>2. Live(c)
  BY <1>1 DEF Live, Done
<1>3. /\ NoCreate(c, writeCall) => NoCreate(c, writeCall')
      /\ OwnIsLast(c, writeCall')
  BY <1>1, <1>2, CreateAppend, LiveWas DEF GuardOK
<1> QED BY <1>1, <1>2, <1>3, LiveWas, Frame

LEMMA ReadCellStep ==
  ASSUME CircuitsInv, hand.frame = "in", ReadCell, NEW c \in Circuits
  PROVE  LiveOK(c)'
<1> DEFINE h  == Head(down)
           to == registry[IdOf[h.circ]]
<1> SUFFICES ASSUME Live(c)' PROVE WayOK(c)' /\ GuardOK(c)'
  BY DEF LiveOK
<1>1. /\ readLoop.pc = "read" /\ down # <<>> /\ down' = Tail(down) /\ down \in Seq(Cell)
      /\ readLoop' = IF to = None THEN NoHand ELSE [pc |-> "put", to |-> to, cell |-> h]
      /\ UNCHANGED <<opener, cause, inbound, registry, connCause, writeCall, guard, pushed, got>>
  BY DEF ReadCell, CircuitsInv, TypeOK
<1>2. Live(c)
  BY <1>1 DEF Live, Done
<1>3. h \in Cell /\ registry[IdOf[c]] = c /\ c # None
  BY <1>1, <1>2, LiveWas, TailFits, ConnAssumption DEF GuardOK
<1>4. ~Held(c) /\ (Held(c)' <=> to = c) /\ (Held(c)' => readLoop'.cell = h)
      /\ (readLoop'.pc = "put" => readLoop'.cell = h)
  BY <1>1, <1>3, NoHandIs DEF Held
<1>5. h.circ = c => to = c
  BY <1>3
<1>6. ~Held(c)' => One(h, CreatedOf(c)) = 0 /\ One(h, RelayOf(c)) = 0
  BY <1>4, <1>5 DEF One, CreatedOf, RelayOf
<1> HIDE DEF h, to
<1>7. ReadsOne(c)
  BY <1>1, <1>4, <1>6 DEF ReadsOne, h
<1>8. WayOK(c)' /\ Opened(c)' = Opened(c) /\ InThree(c, CreatedOf(c))' = InThree(c, CreatedOf(c))
  BY <1>2, <1>7, LiveWas, DownTail
<1>9. Held(c)' \/ readLoop'.pc # "put" \/ readLoop'.cell.circ # c
  BY <1>4, <1>5
<1>10. OwnIsLast(c, writeCall') /\ (NoCreate(c, writeCall) => NoCreate(c, writeCall'))
  BY <1>1, <1>2, LiveWas DEF GuardOK
<1> QED BY <1>1, <1>2, <1>8, <1>9, <1>10, LiveWas, GuardFrame

LEMMA DispatchStep ==
  ASSUME CircuitsInv, Dispatch, NEW c \in Circuits
  PROVE  LiveOK(c)'
<1> SUFFICES ASSUME Live(c)' PROVE WayOK(c)' /\ GuardOK(c)'
  BY DEF LiveOK
<1>1. /\ readLoop.pc = "put" /\ inbound \in [Circuits -> Seq(Cell)]
      /\ UNCHANGED <<opener, cause, registry, connCause, writeCall, down, guard, pushed, got>>
  BY DEF Dispatch, CircuitsInv, TypeOK
<1>2. Live(c) /\ connCause = None
  BY <1>1 DEF Live, Done
<1>3. CASE Push(readLoop.to, readLoop.cell) /\ readLoop' = NoHand
  <2>1. ~Held(c)' /\ readLoop'.pc # "put"
    BY <1>3, NoHandIs DEF Held
  <2>2. CASE readLoop.to = c
    <3>1. PutsOne(c)
      BY <1>1, <1>3, <2>1, <2>2 DEF PutsOne, Push, Held
    <3>2. WayOK(c)' /\ Opened(c)' = Opened(c) /\ InThree(c, CreatedOf(c))' = InThree(c, CreatedOf(c))
      BY <1>2, <3>1, LiveWas, InboundAppend
    <3>3. OwnIsLast(c, writeCall') /\ (NoCreate(c, writeCall) => NoCreate(c, writeCall'))
      BY <1>1, <1>2, LiveWas DEF GuardOK
    <3> QED BY <1>1, <1>2, <2>1, <3>2, <3>3, LiveWas, GuardFrame
  <2>3. CASE readLoop.to # c
    <3>1. inbound'[c] = inbound[c] /\ ~Held(c)
      BY <1>1, <1>3, <2>3 DEF Push, Held
    <3> QED BY <1>1, <1>2, <2>1, <3>1, LiveWas, FrameAll
  <2> QED BY <2>2, <2>3
<1>4. CASE Done(readLoop.to) /\ readLoop' = NoHand /\ UNCHANGED inbound
  <2>1. ~Held(c) /\ readLoop'.pc # "put"
    BY <1>2, <1>4, NoHandIs DEF Held, Live
  <2> QED BY <1>1, <1>2, <1>4, <2>1, LiveWas, FrameAll
<1> QED BY <1>2, <1>3, <1>4 DEF Dispatch

\* What the guard makes of a CREATE cell, and what it sends of itself, fits
\* behind all that is on c's way.
LEMMA CreateIsFirst ==
  ASSUME CircuitsInv, NEW c \in Circuits, Live(c), writeCall # <<>>,
         Head(writeCall).cmd = "CREATE", SameId(Head(writeCall), c)
  PROVE  Opened(c) + InThree(c, CreatedOf(c)) = 0
<1>1. /\ Opened(c) \in Nat /\ InThree(c, CreatedOf(c)) \in Nat /\ writeCall \in Seq(Cell)
  BY LiveWas, WayTypes
<1>2. ~NoCreate(c, writeCall)
  BY <1>1, CreateTail
<1>3. ~(Opened(c) + InThree(c, CreatedOf(c)) > 0)
  BY <1>2, LiveWas DEF GuardOK
<1> QED BY <1>1, <1>3

LEMMA WriteCellStep ==
  ASSUME CircuitsInv, WriteCell, NEW c \in Circuits
  PROVE  LiveOK(c)'
<1> DEFINE h == Head(writeCall)
           i == IdOf[h.circ]
<1>1. CASE Fail("write")
  <2>1. connCause' # None
    BY <1>1, ConnAssumption DEF Fail
  <2> QED BY <2>1, DeadStep
<1>2. CASE UNCHANGED connCause /\ (GuardTake(h) \/ UNCHANGED <<guard, down>>)
  <2> SUFFICES ASSUME Live(c)' PROVE WayOK(c)' /\ GuardOK(c)'
    BY DEF LiveOK
  <2>1. /\ writeCall # <<>> /\ writeCall' = Tail(writeCall) /\ writeCall \in Seq(Cell) /\ h \in Cell
        /\ guard \in [Ids -> Circuits \cup {None}] /\ i \in Ids /\ h.circ \in Circuits
        /\ UNCHANGED <<opener, cause, inbound, registry, readLoop, pushed, got>>
    <3>1. writeCall # <<>> /\ writeCall \in Seq(Cell) /\ guard \in [Ids -> Circuits \cup {None}]
      BY DEF WriteCell, CircuitsInv, TypeOK
    <3>2. h \in Cell
      BY <3>1, TailFits
    <3>3. i \in Ids /\ h.circ \in Circuits
      BY <3>2, CellIs
    <3> HIDE DEF h, i
    <3> QED BY <3>1, <3>2, <3>3 DEF WriteCell
  <2>2. Live(c)
    BY <1>2, <2>1 DEF Live, Done
  <2>3. /\ NoCreate(c, writeCall) => NoCreate(c, writeCall')
        /\ OwnIsLast(c, writeCall')
    BY <2>1, <2>2, CreateTail, LiveWas DEF GuardOK
  <2>4. CASE UNCHANGED <<guard, down>>
    <3> HIDE DEF h, i
    <3> QED BY <2>1, <2>2, <2>3, <2>4, LiveWas, Frame
  <2>5. ASSUME NEW cmd \in {"CREATED", "DESTROY"},
               h.cmd = "CREATE", guard[i] = None, down' = Append(down, Msg(h.circ, cmd, 0)),
               \/ cmd = "CREATED" /\ guard' = [guard EXCEPT ![i] = h.circ]
               \/ cmd = "DESTROY" /\ guard' = guard
        PROVE  WayOK(c)' /\ GuardOK(c)'
    <3> DEFINE e == Msg(h.circ, cmd, 0)
    <3>1. e \in Cell /\ e.circ = h.circ /\ e.cmd = cmd
      BY <2>1, MsgIs
    <3>2. Opened(c) \in Nat /\ InThree(c, CreatedOf(c)) \in Nat /\ pushed[c] \in Nat
      BY <2>2, LiveWas, WayTypes
    <3>3. One(e, RelayOf(c)) = 0
      BY <3>1 DEF One, RelayOf
    <3>4. One(e, CreatedOf(c)) = (IF cmd = "CREATED" /\ h.circ = c THEN 1 ELSE 0)
      BY <3>1 DEF One, CreatedOf, Cell
    <3>5. SameId(h, c) => Opened(c) + InThree(c, CreatedOf(c)) = 0
      BY <2>1, <2>2, <2>5, CreateIsFirst
    <3>6. SameId(e, c) <=> SameId(h, c)
      BY <3>1 DEF SameId
    <3>7. Fits(c, e, Opened(c) + InThree(c, CreatedOf(c)), Taken(c) + InThree(c, RelayOf(c)))
      <4>1. e.cmd # "RELAY"
        BY <3>1
      <4> QED BY <3>5, <3>6, <4>1, Zenon DEF Fits
    <3>8. GuardAdds(c, e)
      BY <2>1, <2>5, <3>2, <3>3 DEF GuardAdds
    <3>9. /\ WayOK(c)' /\ Opened(c)' = Opened(c) /\ Held(c)' = Held(c)
          /\ InThree(c, CreatedOf(c))' = InThree(c, CreatedOf(c)) + One(e, CreatedOf(c))
      BY <2>2, <3>1, <3>7, <3>8, LiveWas, DownAppend
    <3>10. Held(c)' \/ readLoop'.pc # "put" \/ readLoop'.cell.circ # c
      BY <2>1, <2>2, <3>9, LiveWas DEF GuardOK
    <3>11. CASE cmd = "CREATED" /\ h.circ = c
      <4>1. Opened(c)' + InThree(c, CreatedOf(c))' > 0
        BY <3>2, <3>4, <3>9, <3>11
      <4>2. guard'[IdOf[c]] = c /\ registry'[IdOf[c]] = c
        BY <2>1, <2>2, <2>5, <3>11, LiveWas DEF GuardOK
      <4>3. opener'[c] # "send"
        <5>1. PICK z : z \in 1 .. Len(writeCall) /\ z = 1 /\ writeCall[z] = h
          BY <2>1, HeadTailProperties, LenProperties, EmptySeq
        <5>2. ~NoneOf(c, writeCall)
          BY <3>11, <5>1, Zenon DEF NoneOf
        <5> QED BY <2>1, <5>2 DEF CircuitsInv, Unborn
      <4>4. NoCreate(c, writeCall')
        BY <2>1, <2>2, <2>5, <3>11, CreateTail, LiveWas DEF GuardOK
      <4> HIDE DEF h, i, e
      <4> QED BY <2>3, <3>9, <3>10, <4>1, <4>2, <4>3, <4>4 DEF GuardOK
    <3>12. CASE ~(cmd = "CREATED" /\ h.circ = c)
      <4>1. Opened(c)' + InThree(c, CreatedOf(c))' = Opened(c) + InThree(c, CreatedOf(c))
        BY <3>2, <3>4, <3>9, <3>12
      <4>2. CASE SameId(h, c) /\ cmd = "CREATED"
        <5>1. guard'[IdOf[c]] # c
          BY <2>1, <2>5, <3>12, <4>2 DEF SameId
        <5>2. ~(Opened(c)' + InThree(c, CreatedOf(c))' > 0)
          BY <3>5, <4>1, <4>2
        <5>3. registry'[IdOf[c]] = c
          BY <2>1, <2>2, LiveWas DEF GuardOK
        <5> HIDE DEF h, i, e
        <5> QED BY <2>3, <3>9, <3>10, <5>1, <5>2, <5>3 DEF GuardOK
      <4>3. CASE ~(SameId(h, c) /\ cmd = "CREATED")
        <5>1. guard'[IdOf[c]] = guard[IdOf[c]]
          <6>1. IdOf[c] \in Ids
            BY DEF Ids
          <6>2. CASE cmd = "CREATED"
            BY <2>1, <2>5, <4>3, <6>1, <6>2 DEF SameId
          <6>3. CASE cmd = "DESTROY"
            BY <2>5, <6>3
          <6> QED BY <6>2, <6>3
        <5>2. (opener'[c] = "send" => opener[c] = "send") /\ registry'[IdOf[c]] = registry[IdOf[c]]
          BY <2>1
        <5> HIDE DEF h, i, e
        <5> QED BY <2>2, <2>3, <3>9, <3>10, <4>1, <5>1, <5>2, LiveWas, GuardFrame
      <4> QED BY <4>2, <4>3
    <3> QED BY <3>11, <3>12
  <2>6. GuardTake(h) => \/ UNCHANGED <<guard, down>>
                        \/ /\ h.cmd = "CREATE" /\ guard[i] = None
                           /\ \/ guard' = [guard EXCEPT ![i] = h.circ] /\ down' = Append(down, Msg(h.circ, "CREATED", 0))
                              \/ guard' = guard /\ down' = Append(down, Msg(h.circ, "DESTROY", 0))
    BY DEF GuardTake
  <2> QED BY <1>2, <2>4, <2>5, <2>6
<1>3. Fail("write") \/ (UNCHANGED connCause /\ (GuardTake(h) \/ UNCHANGED <<guard, down>>))
  BY DEF WriteCell
<1> QED BY <1>1, <1>2, <1>3

\* Of what the guard sends, RELAY cells are c's own, and come after the CREATED.
LEMMA GuardSendStep ==
  ASSUME CircuitsInv, NEW d \in Circuits, GuardRelay(d) \/ GuardDestroy(d), NEW c \in Circuits
  PROVE  LiveOK(c)'
<1> SUFFICES ASSUME Live(c)' PROVE WayOK(c)' /\ GuardOK(c)'
  BY DEF LiveOK
<1>1. /\ guard[IdOf[d]] = d /\ pushed \in [Circuits -> Nat] /\ guard \in [Ids -> Circuits \cup {None}]
      /\ UNCHANGED <<opener, cause, inbound, registry, connCause, readLoop, writeCall, got>>
      /\ d # None /\ pushed[d] + 1 \in Nat /\ IdOf[d] \in Ids /\ IdOf[c] \in Ids
  <2>1. pushed \in [Circuits -> Nat] /\ guard \in [Ids -> Circuits \cup {None}]
    BY DEF CircuitsInv, TypeOK
  <2>2. d # None /\ IdOf[d] \in Ids /\ IdOf[c] \in Ids
    BY ConnAssumption DEF Ids
  <2>3. /\ guard[IdOf[d]] = d
        /\ UNCHANGED <<opener, cause, inbound, registry, connCause, readLoop, writeCall, got>>
    BY DEF GuardRelay, GuardDestroy
  <2> QED BY <2>1, <2>2, <2>3
<1>2. Live(c)
  BY <1>1 DEF Live, Done
<1>3. PICK e \in Cell : /\ e.circ = d /\ down' = Append(down, e)
                        /\ \/ /\ e.cmd = "RELAY" /\ e.n = pushed[d] + 1
                              /\ pushed' = [pushed EXCEPT ![d] = @ + 1] /\ guard' = guard
                           \/ /\ e.cmd = "DESTROY" /\ pushed' = pushed
                              /\ guard' = [guard EXCEPT ![IdOf[d]] = None]
  <2>1. CASE GuardRelay(d)
    <3>1. Msg(d, "RELAY", pushed[d] + 1) \in Cell
      BY <1>1, MsgIs
    <3> QED BY <1>1, <2>1, <3>1, MsgIs DEF GuardRelay
  <2>2. CASE GuardDestroy(d)
    BY <1>1, <2>2, MsgIs DEF GuardDestroy
  <2> QED BY <2>1, <2>2
<1>4. /\ Opened(c) \in Nat /\ InThree(c, CreatedOf(c)) \in Nat
      /\ Taken(c) \in Nat /\ InThree(c, RelayOf(c)) \in Nat /\ pushed[c] \in Nat
  BY <1>2, LiveWas, WayTypes
<1>5. c # d /\ SameId(e, c) => Opened(c) + InThree(c, CreatedOf(c)) = 0
  <2>1. c # d /\ SameId(e, c) => ~(Opened(c) + InThree(c, CreatedOf(c)) > 0)
    BY <1>1, <1>2, <1>3, LiveWas DEF GuardOK, SameId
  <2> QED BY <1>4, <2>1
<1>6. c = d => Opened(c) + InThree(c, CreatedOf(c)) > 0
  BY <1>1, <1>2, LiveWas DEF GuardOK
<1>7. c = d /\ e.cmd = "RELAY" => e.n = (Taken(c) + InThree(c, RelayOf(c))) + 1
  BY <1>2, <1>3, LiveWas DEF WayOK
<1>8. Fits(c, e, Opened(c) + InThree(c, CreatedOf(c)), Taken(c) + InThree(c, RelayOf(c)))
  <2>1. e.cmd # "CREATED"
    BY <1>3
  <2> QED BY <1>3, <1>5, <1>6, <1>7, <2>1, Zenon DEF Fits
<1>9. /\ One(e, CreatedOf(c)) = 0
      /\ One(e, RelayOf(c)) = (IF c = d /\ e.cmd = "RELAY" THEN 1 ELSE 0)
  BY <1>3 DEF One, CreatedOf, RelayOf, Cell
<1>10. pushed'[c] = pushed[c] + One(e, RelayOf(c))
  BY <1>1, <1>3, <1>4, <1>9
<1>11. GuardAdds(c, e)
  BY <1>1, <1>3, <1>10 DEF GuardAdds
<1>12. /\ WayOK(c)' /\ Opened(c)' = Opened(c) /\ Held(c)' = Held(c)
       /\ InThree(c, CreatedOf(c))' = InThree(c, CreatedOf(c)) + One(e, CreatedOf(c))
  BY <1>2, <1>8, <1>11, LiveWas, DownAppend
<1>13. Opened(c)' + InThree(c, CreatedOf(c))' = Opened(c) + InThree(c, CreatedOf(c))
  BY <1>4, <1>9, <1>12
<1>14. guard'[IdOf[c]] = guard[IdOf[c]] \/ guard'[IdOf[c]] = None
  BY <1>1, <1>3
<1>15. /\ OwnIsLast(c, writeCall') /\ (NoCreate(c, writeCall) => NoCreate(c, writeCall'))
       /\ Held(c)' \/ readLoop'.pc # "put" \/ readLoop'.cell.circ # c
  BY <1>1, <1>2, <1>12, LiveWas DEF GuardOK
<1> QED BY <1>1, <1>2, <1>12, <1>13, <1>14, <1>15, LiveWas, GuardFrame

LEMMA LiveNext ==
  ASSUME CircuitsInv, hand.frame = "in", [Next]_vars, NEW c \in Circuits
  PROVE  LiveOK(c)'
<1>1. CASE Connect \/ StartLoops
  <2>1. UNCHANGED <<opener, inbound, got, registry, down, pushed, writeCall, connCause, cause, guard>>
    BY <1>1 DEF Connect, StartLoops
  <2>2. readLoop' = readLoop \/ (~Held(c) /\ readLoop'.pc # "put")
    <3>1. StartLoops => readLoop.pc = "off"
      BY DEF StartLoops, WriteNetInfo, CircuitsInv, LifeOK, TypeOK
    <3> QED BY <1>1, <3>1, NoHandIs DEF Connect, StartLoops, Held
  <2> QED BY <2>1, <2>2, QuietStep
<1>2. CASE \E d \in Circuits : ReaderExit(d) \/ HandleDestroy(d) \/ CloseCircuit(d)
  <2>1. PICK d \in Circuits : ReaderExit(d) \/ HandleDestroy(d) \/ CloseCircuit(d)
    BY <1>2
  <2>2. UNCHANGED <<opener, inbound, got, registry, down, pushed, writeCall, connCause, guard, readLoop>>
    BY <2>1 DEF ReaderExit, HandleDestroy, CloseCircuit
  <2>3. cause'[c] = None => cause[c] = None
    BY <2>1 DEF ReaderExit, HandleDestroy, CloseCircuit, Cancel, Done, CircuitsInv, TypeOK
  <2> QED BY <2>2, <2>3, QuietStep
<1>3. CASE ReadFail \/ WriteExit \/ CloseConn
  <2>1. connCause' # None
    BY <1>3, ConnAssumption DEF ReadFail, WriteExit, CloseConn, Fail
  <2> QED BY <2>1, DeadStep
<1>4. CASE GuardHangsUp \/ UNCHANGED vars
  <2>1. UNCHANGED <<opener, inbound, got, registry, down, pushed, writeCall, connCause, cause, readLoop>>
    BY <1>4 DEF GuardHangsUp
  <2>2. guard'[IdOf[c]] = guard[IdOf[c]] \/ guard'[IdOf[c]] = None
    BY <1>4 DEF GuardHangsUp, Ids
  <2> QED BY <2>1, <2>2, QuietStep
<1>5. CASE ReadCell \/ Dispatch \/ WriteCell
  BY <1>5, ReadCellStep, DispatchStep, WriteCellStep
<1>6. CASE \E d \in Circuits : \/ Call(d) \/ OpenSend(d) \/ OpenAnswer(d) \/ ReaderTake(d)
                               \/ CircuitSend(d) \/ GuardRelay(d) \/ GuardDestroy(d)
  BY <1>6, CallStep, OpenSendStep, OpenAnswerStep, ReaderTakeStep, CircuitSendStep, GuardSendStep
<1> QED BY <1>1, <1>2, <1>3, <1>4, <1>5, <1>6 DEF Next, Opening, Reading

-----------------------------------------------------------------------------
(* The rest of the invariant                                               *)

LEMMA NoneAppend ==
  ASSUME NEW c \in Circuits, NEW q \in Seq(Cell), NoneOf(c, q), NEW e \in Cell, e.circ # c
  PROVE  NoneOf(c, Append(q, e))
<1>1. /\ Len(q) \in Nat /\ Len(Append(q, e)) = Len(q) + 1 /\ Append(q, e)[Len(q) + 1] = e
      /\ \A i \in 1 .. Len(q) : Append(q, e)[i] = q[i]
  BY AppendProperties, LenProperties
<1> QED BY <1>1 DEF NoneOf

LEMMA NoneTail ==
  ASSUME NEW c \in Circuits, NEW q \in Seq(Cell), NoneOf(c, q), q # <<>>
  PROVE  NoneOf(c, Tail(q)) /\ Head(q).circ # c
<1>1. /\ Len(q) \in Nat /\ Len(Tail(q)) \in Nat /\ Len(q) = Len(Tail(q)) + 1
      /\ \A i \in 1 .. Len(Tail(q)) : Tail(q)[i] = q[i + 1]
  BY HeadTailProperties, LenProperties, EmptySeq
<1>2. PICK z : z \in 1 .. Len(q) /\ z = 1 /\ q[z] = Head(q)
  BY <1>1, HeadTailProperties
<1>3. NoneOf(c, Tail(q))
  BY <1>1 DEF NoneOf
<1> QED BY <1>2, <1>3, Zenon DEF NoneOf

UnbornOK(c) == opener[c] \in {"off", "send"} => Unborn(c)

LEMMA UnbornFrame ==
  ASSUME NEW c \in Circuits, Unborn(c), opener'[c] \in {"off", "send"}, opener'[c] = "off" => opener[c] = "off",
         guard'[IdOf[c]] # c, pushed'[c] = pushed[c], got'[c] = got[c], inbound'[c] = inbound[c],
         NoneOf(c, down'), NoneOf(c, writeCall'),
         readLoop'.pc = "put" => readLoop'.cell.circ # c,
         opener'[c] = "off" => registry'[IdOf[c]] # c /\ ~Held(c)'
  PROVE  Unborn(c)'
BY DEF Unborn

\* Where no queue changes.
LEMMA UnbornQuiet ==
  ASSUME NEW c \in Circuits, UnbornOK(c),
         opener'[c] \in {"off", "send"} => opener[c] = opener'[c] \/ (opener[c] = "off" /\ opener'[c] = "send"),
         UNCHANGED <<pushed, down, writeCall>>, got'[c] = got[c], inbound'[c] = inbound[c],
         guard'[IdOf[c]] # c \/ guard'[IdOf[c]] = guard[IdOf[c]],
         readLoop' = readLoop \/ readLoop'.pc # "put",
         opener'[c] = "off" => registry'[IdOf[c]] = registry[IdOf[c]] \/ registry'[IdOf[c]] # c
  PROVE  UnbornOK(c)'
<1> SUFFICES ASSUME opener'[c] \in {"off", "send"} PROVE Unborn(c)'
  BY DEF UnbornOK
<1>1. Unborn(c) /\ (opener'[c] = "off" => opener[c] = "off")
  BY DEF UnbornOK
<1>2. opener'[c] = "off" => registry'[IdOf[c]] # c /\ ~Held(c)'
  BY <1>1 DEF Unborn, Held
<1> QED BY <1>1, <1>2, UnbornFrame DEF Unborn

LEMMA UnbornNext ==
  ASSUME BaseInv, [Next]_vars, NEW c \in Circuits
  PROVE  UnbornOK(c)'
<1>t. /\ UnbornOK(c) /\ c # None
      /\ opener \in [Circuits -> {"off", "send", "await", "up", "failed"}]
      /\ registry \in [Ids -> Circuits \cup {None}] /\ guard \in [Ids -> Circuits \cup {None}]
      /\ inbound \in [Circuits -> Seq(Cell)] /\ got \in [Circuits -> Seq(Nat)] /\ pushed \in [Circuits -> Nat]
      /\ down \in Seq(Cell) /\ writeCall \in Seq(Cell) /\ IdOf[c] \in Ids
      /\ \A b \in Circuits : IdOf[b] \in Ids
  BY ConnAssumption DEF BaseInv, TypeOK, UnbornOK, Ids
<1>1. CASE Connect \/ StartLoops \/ ReadFail \/ WriteExit \/ CloseConn \/ GuardHangsUp \/ UNCHANGED vars
  <2>1. UNCHANGED <<opener, inbound, got, registry, down, pushed, writeCall>>
    BY <1>1 DEF Connect, StartLoops, ReadFail, WriteExit, CloseConn, GuardHangsUp
  <2>2. guard'[IdOf[c]] # c \/ guard'[IdOf[c]] = guard[IdOf[c]]
    BY <1>1, <1>t DEF Connect, StartLoops, ReadFail, WriteExit, CloseConn, GuardHangsUp
  <2>3. readLoop' = readLoop \/ readLoop'.pc # "put"
    BY <1>1, NoHandIs DEF Connect, StartLoops, ReadFail, WriteExit, CloseConn, GuardHangsUp, BaseInv, TypeOK
  <2> QED BY <1>t, <2>1, <2>2, <2>3, UnbornQuiet
<1>2. ASSUME NEW d \in Circuits, ReaderExit(d) \/ HandleDestroy(d) \/ CloseCircuit(d) \/ ReaderTake(d) \/ Call(d)
      PROVE  UnbornOK(c)'
  <2>1. UNCHANGED <<pushed, down, writeCall, readLoop, guard>>
    BY <1>2 DEF ReaderExit, HandleDestroy, CloseCircuit, ReaderTake, Call
  <2>2. CASE ReaderTake(d)
    <3>1. opener[d] = "up" /\ UNCHANGED <<opener, registry>>
      BY <2>2 DEF ReaderTake, BaseInv, LifeOK
    <3>2. CASE c = d
      BY <3>1, <3>2 DEF UnbornOK
    <3>3. CASE c # d
      <4>1. inbound'[c] = inbound[c] /\ got'[c] = got[c]
        BY <1>t, <2>2, <3>3 DEF ReaderTake
      <4> QED BY <1>t, <2>1, <3>1, <4>1, UnbornQuiet
    <3> QED BY <3>2, <3>3
  <2>3. CASE Call(d)
    <3>1. inbound' = inbound /\ got' = got /\ opener[d] = "off" /\ opener'[d] = "send"
          /\ (c # d => opener'[c] = opener[c])
      BY <1>t, <2>3 DEF Call, Goto
    <3>2. opener'[c] = "off" => registry'[IdOf[c]] = registry[IdOf[c]] \/ registry'[IdOf[c]] # c
      BY <1>t, <2>3, <3>1 DEF Call
    <3> QED BY <1>t, <2>1, <3>1, <3>2, UnbornQuiet
  <2>4. CASE ReaderExit(d) \/ HandleDestroy(d) \/ CloseCircuit(d)
    <3>1. UNCHANGED <<opener, registry, inbound, got>>
      BY <2>4 DEF ReaderExit, HandleDestroy, CloseCircuit
    <3> QED BY <1>t, <2>1, <3>1, UnbornQuiet
  <2> QED BY <1>2, <2>2, <2>3, <2>4
<1>3. ASSUME NEW d \in Circuits, OpenSend(d) \/ OpenAnswer(d) \/ CircuitSend(d)
      PROVE  UnbornOK(c)'
  <2>1. UNCHANGED <<pushed, down, readLoop, guard, got>>
    BY <1>3 DEF OpenSend, OpenAnswer, CircuitSend
  <2>2. opener[d] # "off" /\ (\/ opener' = opener /\ opener[d] = "up"
                              \/ opener'[d] \notin {"off", "send"} /\ (c # d => opener'[c] = opener[c]))
    BY <1>3, <1>t DEF OpenSend, OpenAnswer, CircuitSend, FailOpen, Goto
  <2>3. CASE c = d
    BY <2>2, <2>3 DEF UnbornOK
  <2>4. CASE c # d
    <3>1. opener'[c] = opener[c] /\ inbound'[c] = inbound[c]
      BY <1>3, <1>t, <2>2, <2>4 DEF OpenSend, OpenAnswer, CircuitSend
    <3>2. registry'[IdOf[c]] = registry[IdOf[c]] \/ registry'[IdOf[c]] # c
      BY <1>3, <1>t DEF OpenSend, OpenAnswer, CircuitSend, FailOpen
    <3>3. CASE writeCall' = writeCall
      BY <1>t, <2>1, <3>1, <3>2, <3>3, UnbornQuiet
    <3>4. CASE \E cmd \in {"CREATE", "RELAY"} : \E n \in Nat : writeCall' = Append(writeCall, Msg(d, cmd, n))
      <4> SUFFICES ASSUME opener'[c] \in {"off", "send"} PROVE Unborn(c)'
        BY DEF UnbornOK
      <4>1. PICK cmd \in {"CREATE", "RELAY"}, n \in Nat : writeCall' = Append(writeCall, Msg(d, cmd, n))
        BY <3>4
      <4>2. Msg(d, cmd, n) \in Cell /\ Msg(d, cmd, n).circ = d
        BY MsgIs
      <4>3. Unborn(c)
        BY <1>t, <3>1 DEF UnbornOK
      <4>4. NoneOf(c, writeCall')
        BY <1>t, <2>4, <4>1, <4>2, <4>3, NoneAppend DEF Unborn
      <4>5. opener'[c] = "off" => registry'[IdOf[c]] # c /\ ~Held(c)'
        BY <2>1, <3>1, <3>2, <4>3 DEF Unborn, Held
      <4> QED BY <2>1, <3>1, <4>3, <4>4, <4>5, UnbornFrame DEF Unborn
    <3>5. \/ writeCall' = writeCall
          \/ \E cmd \in {"CREATE", "RELAY"} : \E n \in Nat : writeCall' = Append(writeCall, Msg(d, cmd, n))
      <4>1. sent[d] + 1 \in Nat
        BY DEF BaseInv, TypeOK
      <4> QED BY <1>3, <4>1 DEF OpenSend, OpenAnswer, CircuitSend
    <3> QED BY <3>3, <3>4, <3>5
  <2> QED BY <2>3, <2>4
<1>4. CASE ReadCell
  <2> SUFFICES ASSUME opener'[c] \in {"off", "send"} PROVE Unborn(c)'
    BY DEF UnbornOK
  <2> DEFINE h == Head(down)
  <2>1. /\ UNCHANGED <<opener, inbound, got, registry, pushed, writeCall, guard>>
        /\ down # <<>> /\ down' = Tail(down)
        /\ readLoop' = NoHand \/ readLoop' = [pc |-> "put", to |-> registry[IdOf[h.circ]], cell |-> h]
    BY <1>4 DEF ReadCell
  <2>2. Unborn(c) /\ NoneOf(c, down) /\ NoneOf(c, writeCall)
    BY <1>t, <2>1 DEF UnbornOK, Unborn
  <2>3. NoneOf(c, down') /\ h.circ # c /\ h.circ \in Circuits
    BY <1>t, <2>1, <2>2, NoneTail, TailFits, CellIs
  <2>4. readLoop'.pc = "put" => readLoop'.cell.circ # c
    BY <2>1, <2>3, NoHandIs
  <2>5. opener'[c] = "off" => registry'[IdOf[c]] # c /\ ~Held(c)'
    <3>1. registry[IdOf[h.circ]] = c => IdOf[c] = IdOf[h.circ]
      BY <1>t, <2>3 DEF BaseInv, IdsOK
    <3> QED BY <2>1, <2>2, <3>1, NoHandIs DEF Unborn, Held
  <2> HIDE DEF h
  <2> QED BY <2>1, <2>2, <2>3, <2>4, <2>5, UnbornFrame DEF Unborn
<1>5. CASE Dispatch
  <2> SUFFICES ASSUME opener'[c] \in {"off", "send"} PROVE Unborn(c)'
    BY DEF UnbornOK
  <2>1. /\ UNCHANGED <<opener, got, registry, pushed, writeCall, guard, down>>
        /\ readLoop.pc = "put" /\ readLoop'.pc # "put"
    BY <1>5, NoHandIs DEF Dispatch, BaseInv, TypeOK
  <2>2. Unborn(c)
    BY <1>t, <2>1 DEF UnbornOK
  <2>3. opener[c] = "off" => inbound'[c] = inbound[c]
    BY <1>5, <1>t, <2>1, <2>2 DEF Dispatch, Push, Unborn, Held
  <2>4. ~Held(c)'
    BY <2>1 DEF Held
  <2> QED BY <2>1, <2>2, <2>3, <2>4 DEF Unborn
<1>6. CASE WriteCell
  <2> SUFFICES ASSUME opener'[c] \in {"off", "send"} PROVE Unborn(c)'
    BY DEF UnbornOK
  <2> DEFINE h == Head(writeCall)
  <2>1. /\ UNCHANGED <<opener, inbound, got, registry, pushed, readLoop>>
        /\ writeCall # <<>> /\ writeCall' = Tail(writeCall)
        /\ GuardTake(h) \/ UNCHANGED <<guard, down>>
    BY <1>6 DEF WriteCell
  <2>2. Unborn(c) /\ NoneOf(c, down) /\ NoneOf(c, writeCall)
    BY <1>t, <2>1 DEF UnbornOK, Unborn
  <2>3. NoneOf(c, writeCall') /\ h.circ # c /\ h.circ \in Circuits
    BY <1>t, <2>1, <2>2, NoneTail, TailFits, CellIs
  <2> HIDE DEF h
  <2>4. guard'[IdOf[c]] # c
    BY <1>t, <2>1, <2>2, <2>3 DEF GuardTake, Unborn
  <2>5. NoneOf(c, down')
    <3>1. \/ down' = down
          \/ \E cmd \in {"CREATED", "DESTROY"} : down' = Append(down, Msg(h.circ, cmd, 0))
      BY <2>1 DEF GuardTake
    <3>2. ASSUME NEW cmd \in {"CREATED", "DESTROY"}
          PROVE  Msg(h.circ, cmd, 0) \in Cell /\ Msg(h.circ, cmd, 0).circ # c
      BY <2>3, MsgIs
    <3> QED BY <1>t, <2>2, <3>1, <3>2, NoneAppend
  <2>6. opener'[c] = "off" => registry'[IdOf[c]] # c /\ ~Held(c)'
    BY <2>1, <2>2 DEF Unborn, Held
  <2> QED BY <2>1, <2>2, <2>3, <2>4, <2>5, <2>6, UnbornFrame DEF Unborn
<1>7. ASSUME NEW d \in Circuits, GuardRelay(d) \/ GuardDestroy(d) PROVE UnbornOK(c)'
  <2> SUFFICES ASSUME opener'[c] \in {"off", "send"} PROVE Unborn(c)'
    BY DEF UnbornOK
  <2>1. /\ UNCHANGED <<opener, inbound, got, registry, readLoop, writeCall>> /\ guard[IdOf[d]] = d
    BY <1>7 DEF GuardRelay, GuardDestroy
  <2>2. Unborn(c) /\ NoneOf(c, down) /\ NoneOf(c, writeCall)
    BY <1>t, <2>1 DEF UnbornOK, Unborn
  <2>3. c # d
    BY <2>1, <2>2 DEF Unborn
  <2>4. guard'[IdOf[c]] # c /\ pushed'[c] = pushed[c]
    BY <1>7, <1>t, <2>2, <2>3 DEF GuardRelay, GuardDestroy, Unborn
  <2>5. NoneOf(c, down')
    <3>1. pushed[d] + 1 \in Nat
      BY <1>t
    <3>2. \E cmd \in {"RELAY", "DESTROY"} : \E n \in Nat : down' = Append(down, Msg(d, cmd, n))
      BY <1>7, <3>1 DEF GuardRelay, GuardDestroy
    <3>3. PICK cmd \in {"RELAY", "DESTROY"}, n \in Nat : down' = Append(down, Msg(d, cmd, n))
      BY <3>2
    <3>4. Msg(d, cmd, n) \in Cell /\ Msg(d, cmd, n).circ # c
      BY <2>3, MsgIs
    <3> QED BY <1>t, <2>2, <3>3, <3>4, NoneAppend
  <2>6. opener'[c] = "off" => registry'[IdOf[c]] # c /\ ~Held(c)'
    BY <2>1, <2>2 DEF Unborn, Held
  <2> QED BY <2>1, <2>2, <2>4, <2>5, <2>6, UnbornFrame DEF Unborn
<1> QED BY <1>1, <1>2, <1>3, <1>4, <1>5, <1>6, <1>7 DEF Next, Opening, Reading

LEMMA IdsNext == BaseInv /\ [Next]_vars => IdsOK'
<1> SUFFICES ASSUME BaseInv, [Next]_vars PROVE IdsOK'
  OBVIOUS
<1> DEFINE RegOK   == \A i \in Ids : registry[i] # None => IdOf[registry[i]] = i
           HandOK  == readLoop.pc = "put" => SameId(readLoop.cell, readLoop.to)
           QueueOK == \A c \in Circuits : \A i \in 1 .. Len(inbound[c]) : SameId(inbound[c][i], c)
<1>t. /\ RegOK /\ HandOK /\ QueueOK
      /\ registry \in [Ids -> Circuits \cup {None}] /\ inbound \in [Circuits -> Seq(Cell)]
      /\ down \in Seq(Cell)
  BY DEF BaseInv, TypeOK, IdsOK
<1>1. RegOK'
  <2>1. CASE UNCHANGED registry
    BY <1>t, <2>1
  <2>2. CASE \E d \in Circuits : registry' = [registry EXCEPT ![IdOf[d]] = None]
    BY <1>t, <2>2
  <2>3. CASE \E d \in Circuits : registry' = [registry EXCEPT ![IdOf[d]] = d]
    BY <1>t, <2>3
  <2>4. \/ UNCHANGED registry
        \/ \E d \in Circuits : \/ registry' = [registry EXCEPT ![IdOf[d]] = None]
                               \/ registry' = [registry EXCEPT ![IdOf[d]] = d]
    <3>1. CASE \E d \in Circuits : Call(d) \/ OpenSend(d) \/ OpenAnswer(d)
      BY <3>1 DEF Call, OpenSend, OpenAnswer, FailOpen
    <3>2. CASE ~(\E d \in Circuits : Call(d) \/ OpenSend(d) \/ OpenAnswer(d))
      BY <3>2 DEF Next, Opening, Reading, Connect, StartLoops, ReaderTake, ReaderExit, HandleDestroy,
                  CircuitSend, CloseCircuit, ReadCell, ReadFail, Dispatch, WriteCell, WriteExit,
                  CloseConn, GuardHangsUp, GuardRelay, GuardDestroy
    <3> QED BY <3>1, <3>2
  <2> QED BY <2>1, <2>2, <2>3, <2>4
<1>2. HandOK'
  <2>1. CASE readLoop' = readLoop \/ readLoop'.pc # "put"
    BY <1>t, <2>1
  <2>2. CASE ReadCell
    <3> DEFINE h == Head(down)
    <3>1. /\ down # <<>>
          /\ \/ readLoop' = NoHand
             \/ /\ registry[IdOf[h.circ]] # None
                /\ readLoop' = [pc |-> "put", to |-> registry[IdOf[h.circ]], cell |-> h]
      BY <2>2 DEF ReadCell
    <3>2. h \in Cell /\ IdOf[h.circ] \in Ids
      BY <1>t, <3>1, TailFits, CellIs
    <3> HIDE DEF h
    <3>3. registry[IdOf[h.circ]] # None => IdOf[registry[IdOf[h.circ]]] = IdOf[h.circ]
      BY <1>t, <3>2
    <3> QED BY <3>1, <3>3, NoHandIs DEF SameId
  <2>3. ReadCell \/ readLoop' = readLoop \/ readLoop'.pc # "put"
    BY NoHandIs DEF Next, vars, Opening, Reading, Connect, StartLoops, Call, OpenSend, OpenAnswer, ReaderTake,
       ReaderExit, HandleDestroy, CircuitSend, CloseCircuit, ReadFail, Dispatch, WriteCell, WriteExit,
       CloseConn, GuardHangsUp, GuardRelay, GuardDestroy, BaseInv, TypeOK
  <2> QED BY <2>1, <2>2, <2>3
<1>3. QueueOK'
  <2> SUFFICES ASSUME NEW c \in Circuits PROVE \A i \in 1 .. Len(inbound'[c]) : SameId(inbound'[c][i], c)
    OBVIOUS
  <2>1. CASE inbound'[c] = inbound[c]
    BY <1>t, <2>1
  <2>2. CASE inbound[c] # <<>> /\ inbound'[c] = Tail(inbound[c])
    <3>1. PICK q : q \in Seq(Cell) /\ q = inbound[c] /\ q # <<>>
      BY <1>t, <2>2
    <3>2. /\ Len(q) \in Nat /\ Len(Tail(q)) \in Nat /\ Len(q) = Len(Tail(q)) + 1
          /\ \A i \in 1 .. Len(Tail(q)) : Tail(q)[i] = q[i + 1]
      BY <3>1, HeadTailProperties, LenProperties, EmptySeq
    <3>3. \A i \in 1 .. Len(q) : SameId(q[i], c)
      BY <1>t, <3>1
    <3>4. ASSUME NEW i \in 1 .. Len(Tail(q)) PROVE SameId(Tail(q)[i], c)
      <4>1. i + 1 \in 1 .. Len(q)
        BY <3>2
      <4> QED BY <3>2, <3>3, <4>1
    <3> QED BY <2>2, <3>1, <3>4
  <2>3. CASE readLoop.pc = "put" /\ readLoop.to = c /\ inbound'[c] = Append(inbound[c], readLoop.cell)
    <3>1. PICK q : q \in Seq(Cell) /\ q = inbound[c]
      BY <1>t
    <3>2. PICK e : e \in Cell /\ e = readLoop.cell /\ SameId(e, c)
      BY <1>t, <2>3 DEF BaseInv, TypeOK
    <3>3. /\ Len(q) \in Nat /\ Len(Append(q, e)) = Len(q) + 1 /\ Append(q, e)[Len(q) + 1] = e
          /\ \A i \in 1 .. Len(q) : Append(q, e)[i] = q[i]
      BY <3>1, <3>2, AppendProperties, LenProperties
    <3>4. \A i \in 1 .. Len(q) : SameId(q[i], c)
      BY <1>t, <3>1
    <3>5. \A i \in 1 .. Len(Append(q, e)) : SameId(Append(q, e)[i], c)
      <4>1. \A i \in 1 .. Len(Append(q, e)) : i \in 1 .. Len(q) \/ Append(q, e)[i] = e
        BY <3>3
      <4> QED BY <3>2, <3>3, <3>4, <4>1
    <3> QED BY <2>3, <3>1, <3>2, <3>5
  <2>4. \/ inbound'[c] = inbound[c] \/ (inbound[c] # <<>> /\ inbound'[c] = Tail(inbound[c]))
        \/ (readLoop.pc = "put" /\ readLoop.to = c /\ inbound'[c] = Append(inbound[c], readLoop.cell))
    <3>1. CASE Dispatch
      BY <1>t, <3>1 DEF Dispatch, Push
    <3>2. CASE \E d \in Circuits : OpenAnswer(d) \/ ReaderTake(d)
      BY <1>t, <3>2 DEF OpenAnswer, ReaderTake
    <3>3. CASE ~(Dispatch \/ \E d \in Circuits : OpenAnswer(d) \/ ReaderTake(d))
      BY <3>3 DEF Next, vars, Opening, Reading, Connect, StartLoops, Call, OpenSend,
         ReaderExit, HandleDestroy, CircuitSend, CloseCircuit, ReadCell, ReadFail, WriteCell, WriteExit,
         CloseConn, GuardHangsUp, GuardRelay, GuardDestroy
    <3> QED BY <3>1, <3>2, <3>3
  <2> QED BY <2>1, <2>2, <2>3, <2>4
<1> QED BY <1>1, <1>2, <1>3 DEF IdsOK

LEMMA LifeNext == BaseInv /\ [Next]_vars => LifeOK'
<1> SUFFICES ASSUME BaseInv, [Next]_vars PROVE LifeOK'
  OBVIOUS
<1>t. /\ LifeOK /\ LinkInv
      /\ opener \in [Circuits -> {"off", "send", "await", "up", "failed"}]
      /\ cause \in [Circuits -> {None, "failed", "closed", "destroyed"}]
      /\ reader \in [Circuits -> {"off", "running", "done"}]
      /\ None \notin {"failed", "closed", "destroyed", "read", "write"}
  BY ConnAssumption DEF BaseInv, TypeOK
<1> DEFINE Life(c) == /\ cause[c] # None => opener[c] \in {"up", "failed"}
                      /\ opener[c] = "failed" => Done(c)
                      /\ reader[c] # "off" => opener[c] = "up"
                      /\ c \in destroying => opener[c] = "up"
<1>l. \A c \in Circuits : Life(c)
  BY <1>t DEF LifeOK
<1>1. readLoop'.pc # "off" => hand'.pc = "up"
  <2>1. CASE Connect
    BY <1>t, <2>1, HandshakeStep DEF Connect, LifeOK
  <2>2. CASE StartLoops
    BY <1>t, <2>2, WriteNetInfoStep DEF StartLoops
  <2>3. CASE UNCHANGED hand /\ (readLoop' = readLoop \/ readLoop.pc \in {"read", "put"})
    BY <1>t, <2>3 DEF LifeOK
  <2>4. Connect \/ StartLoops \/ (UNCHANGED hand /\ (readLoop' = readLoop \/ readLoop.pc \in {"read", "put"}))
    BY DEF Next, vars, newConn, Opening, Reading, Call, OpenSend, OpenAnswer, ReaderTake,
       ReaderExit, HandleDestroy, CircuitSend, CloseCircuit, ReadCell, ReadFail, Dispatch, WriteCell, WriteExit,
       CloseConn, GuardHangsUp, GuardRelay, GuardDestroy
  <2> QED BY <2>1, <2>2, <2>3, <2>4
<1>2. ASSUME NEW c \in Circuits PROVE Life(c)'
  <2>1. CASE /\ UNCHANGED <<opener, cause, reader, destroying>>
             /\ connCause # None => connCause' # None
    BY <1>l, <2>1 DEF Done
  <2>2. ASSUME NEW d \in Circuits, FailOpen(d), opener[d] \in {"send", "await"},
               UNCHANGED <<connCause, reader, destroying>>
        PROVE  Life(c)'
    <3>1. opener'[d] = "failed" /\ (c # d => opener'[c] = opener[c] /\ cause'[c] = cause[c])
      BY <1>t, <2>2 DEF FailOpen, Goto, Cancel
    <3>2. cause'[d] # None \/ connCause' # None
      BY <1>t, <2>2 DEF FailOpen, Cancel, Done
    <3> QED BY <1>l, <2>2, <3>1, <3>2 DEF Done
  <2>3. ASSUME NEW d \in Circuits, Goto(d, "send") \/ Goto(d, "await"), opener[d] \in {"off", "send"},
               UNCHANGED <<cause, connCause, reader, destroying>>
        PROVE  Life(c)'
    <3>1. opener'[d] \in {"send", "await"} /\ (c # d => opener'[c] = opener[c])
      BY <1>t, <2>3 DEF Goto
    <3> QED BY <1>l, <2>3, <3>1 DEF Done
  <2>4. ASSUME NEW d \in Circuits, opener[d] = "await", Goto(d, "up"), reader' = [reader EXCEPT ![d] = "running"],
               UNCHANGED <<cause, connCause, destroying>>
        PROVE  Life(c)'
    <3>1. opener'[d] = "up" /\ (c # d => opener'[c] = opener[c] /\ reader'[c] = reader[c])
      BY <1>t, <2>4 DEF Goto
    <3> QED BY <1>l, <2>4, <3>1 DEF Done
  <2>5. ASSUME NEW d \in Circuits, opener[d] = "up", UNCHANGED <<opener, connCause>>,
               c # d => cause'[c] = cause[c] /\ reader'[c] = reader[c] /\ (c \in destroying' => c \in destroying)
        PROVE  Life(c)'
    <3>1. CASE c = d
      BY <2>5, <3>1
    <3>2. CASE c # d
      BY <1>l, <2>5, <3>2 DEF Done
    <3> QED BY <3>1, <3>2
  <2>6. CASE \E d \in Circuits : Call(d) \/ OpenSend(d) \/ OpenAnswer(d)
    <3>1. PICK d \in Circuits : Call(d) \/ OpenSend(d) \/ OpenAnswer(d)
      BY <2>6
    <3>2. CASE Call(d)
      BY <2>3, <3>2 DEF Call
    <3>3. CASE OpenSend(d)
      BY <2>2, <2>3, <3>3 DEF OpenSend
    <3>4. CASE OpenAnswer(d)
      BY <2>2, <2>4, <3>4 DEF OpenAnswer
    <3> QED BY <3>1, <3>2, <3>3, <3>4
  <2>7. CASE \E d \in Circuits : ReaderTake(d) \/ ReaderExit(d) \/ HandleDestroy(d) \/ CloseCircuit(d)
    <3>1. PICK d \in Circuits : ReaderTake(d) \/ ReaderExit(d) \/ HandleDestroy(d) \/ CloseCircuit(d)
      BY <2>7
    <3>2. opener[d] = "up" /\ UNCHANGED <<opener, connCause>>
      BY <1>l, <3>1 DEF ReaderTake, ReaderExit, HandleDestroy, CloseCircuit
    <3>3. c # d => cause'[c] = cause[c] /\ reader'[c] = reader[c] /\ (c \in destroying' => c \in destroying)
      BY <1>t, <3>1 DEF ReaderTake, ReaderExit, HandleDestroy, CloseCircuit, Cancel
    <3> QED BY <2>5, <3>2, <3>3
  <2>8. \/ UNCHANGED <<opener, cause, reader, destroying>> /\ (connCause # None => connCause' # None)
        \/ \E d \in Circuits : \/ Call(d) \/ OpenSend(d) \/ OpenAnswer(d)
                               \/ ReaderTake(d) \/ ReaderExit(d) \/ HandleDestroy(d) \/ CloseCircuit(d)
    BY <1>t DEF Next, vars, Opening, Reading, Connect, StartLoops, CircuitSend, ReadCell, ReadFail, Dispatch,
       WriteCell, WriteExit, CloseConn, GuardHangsUp, GuardRelay, GuardDestroy, Fail
  <2> QED BY <2>1, <2>6, <2>7, <2>8
<1> QED BY <1>1, <1>2 DEF LifeOK

LEMMA OutNext == BaseInv /\ [Next]_vars => OutOK'
<1> SUFFICES ASSUME BaseInv, [Next]_vars PROVE OutOK'
  OBVIOUS
<1>t. /\ OutOK /\ LinkInv
      /\ opener \in [Circuits -> {"off", "send", "await", "up", "failed"}]
      /\ inbound \in [Circuits -> Seq(Cell)]
      /\ readLoop.pc # "off" => hand.pc = "up"
      /\ hand.frame \in {"in", "out"}
  BY DEF BaseInv, TypeOK, LifeOK, LinkTypeOK
\* A step of a circuit that has something to do.
<1>u. ASSUME UNCHANGED hand, hand.pc = "up",
             hand.frame = "out" =>
               /\ \A c \in Circuits : opener'[c] # "up" /\ inbound'[c] = inbound[c]
               /\ readLoop'.pc # "put"
      PROVE  OutOK'
  BY <1>t, <1>u DEF OutOK
<1>1. CASE Connect
  <2>1. hand.pc # "up"
    BY <1>1, HandshakeStep DEF Connect, BaseInv
  <2>2. UNCHANGED <<opener, inbound, readLoop>> /\ readLoop.pc = "off"
    <3>1. readLoop.pc \in {"off", "read", "put", "done"}
      BY DEF BaseInv, TypeOK
    <3> QED BY <1>1, <1>t, <2>1, <3>1 DEF Connect
  <2> QED BY <1>t, <2>1, <2>2 DEF OutOK
<1>2. CASE StartLoops
  <2>1. /\ hand'.pc = "up" /\ hand'.frame = hand.frame
        /\ UNCHANGED <<opener, inbound>> /\ readLoop'.pc = "read" /\ hand.pc # "up"
    BY <1>2, NoHandIs, WriteNetInfoStep DEF StartLoops, WriteNetInfo, BaseInv, LinkInv, LinkTypeOK
  <2> QED BY <1>t, <2>1 DEF OutOK
<1>3. CASE UNCHANGED <<hand, opener, inbound, readLoop>>
  BY <1>t, <1>3 DEF OutOK
<1>4. ASSUME NEW d \in Circuits, Call(d) \/ OpenSend(d) \/ CircuitSend(d) \/ OpenAnswer(d) PROVE OutOK'
  <2>1. UNCHANGED <<hand, readLoop>> /\ hand.pc = "up"
    BY <1>4, <1>t DEF Call, OpenSend, CircuitSend, OpenAnswer, OutOK
  <2>2. ASSUME hand.frame = "out", NEW c \in Circuits PROVE opener'[c] # "up" /\ inbound'[c] = inbound[c]
    <3>1. inbound[d] = <<>> /\ opener[c] # "up"
      BY <1>t, <2>2 DEF OutOK
    <3>2. CASE Call(d)
      BY <1>t, <3>1, <3>2 DEF Call, Goto
    <3>3. CASE OpenSend(d)
      BY <1>t, <3>1, <3>3 DEF OpenSend, FailOpen, Goto
    <3>4. CASE CircuitSend(d)
      BY <1>t, <3>1, <3>4 DEF CircuitSend
    <3>5. CASE OpenAnswer(d)
      BY <1>t, <3>1, <3>5 DEF OpenAnswer, FailOpen, Goto
    <3> QED BY <1>4, <3>2, <3>3, <3>4, <3>5
  <2> QED BY <1>t, <1>u, <2>1, <2>2 DEF OutOK
<1>5. ASSUME NEW d \in Circuits, ReaderTake(d) PROVE OutOK'
  <2>1. UNCHANGED <<hand, readLoop, opener>> /\ hand.pc = "up" /\ hand.frame # "out"
    BY <1>5, <1>t DEF ReaderTake, OutOK
  <2> QED BY <1>u, <2>1
<1>6. CASE ReadCell \/ ReadFail \/ Dispatch
  <2>1. UNCHANGED <<hand, opener>> /\ hand.pc = "up"
    BY <1>6, <1>t DEF ReadCell, ReadFail, Dispatch
  <2>2. hand.frame = "out" => UNCHANGED inbound /\ readLoop'.pc # "put"
    <3>1. CASE ReadCell
      BY <3>1, NoHandIs DEF ReadCell
    <3>2. CASE ReadFail
      BY <3>2 DEF ReadFail, BaseInv, TypeOK
    <3>3. CASE Dispatch
      BY <1>t, <3>3 DEF Dispatch, OutOK
    <3> QED BY <1>6, <3>1, <3>2, <3>3
  <2> QED BY <1>t, <1>u, <2>1, <2>2 DEF OutOK
<1>7. \/ Connect \/ StartLoops \/ UNCHANGED <<hand, opener, inbound, readLoop>>
      \/ \E d \in Circuits : Call(d) \/ OpenSend(d) \/ CircuitSend(d) \/ OpenAnswer(d) \/ ReaderTake(d)
      \/ ReadCell \/ ReadFail \/ Dispatch
  BY DEF Next, vars, Opening, Reading, ReaderExit, HandleDestroy, CloseCircuit, WriteCell, WriteExit,
     CloseConn, GuardHangsUp, GuardRelay, GuardDestroy
<1> QED BY <1>1, <1>2, <1>3, <1>4, <1>5, <1>6, <1>7

-----------------------------------------------------------------------------
(* Theorems                                                                *)

ConnInv == BaseInv /\ (hand.frame = "in" => CircuitsInv)

LEMMA InvInit == Init => ConnInv
<1> SUFFICES ASSUME Init PROVE ConnInv
  OBVIOUS
<1>1. TypeOK /\ LinkInv
  BY TypeInit, LinkInvInit DEF Init
<1>2. /\ \A c \in Circuits : /\ opener[c] = "off" /\ cause[c] = None /\ reader[c] = "off" /\ inbound[c] = <<>>
                             /\ got[c] = <<>> /\ pushed[c] = 0
      /\ \A i \in Ids : registry[i] = None /\ guard[i] = None
      /\ destroying = {} /\ writeCall = <<>> /\ down = <<>> /\ readLoop.pc = "off"
  BY DEF Init, NoHand
<1>3. \A c \in Circuits : IdOf[c] \in Ids /\ c # None
  BY ConnAssumption DEF Ids
<1>4. IdsOK
  BY <1>2, EmptySeq DEF IdsOK
<1>5. LifeOK
  BY <1>2 DEF LifeOK
<1>6. \A c \in Circuits : Unborn(c)
  BY <1>2, <1>3, EmptySeq DEF Unborn, NoneOf, Held
<1>7. \A c \in Circuits : ~Live(c)
  BY <1>2 DEF Live
<1>8. OutOK
  BY <1>2 DEF OutOK
<1> QED BY <1>1, <1>4, <1>5, <1>6, <1>7, <1>8 DEF CircuitsInv, BaseInv, ConnInv

\* A link out of frame stays so.
LEMMA FrameNext ==
  ASSUME LinkInv, [Next]_vars, hand'.frame = "in"
  PROVE  hand.frame = "in"
<1>t. LinkTypeOK
  BY DEF LinkInv
<1>p. ASSUME NEW to, NEW read, NEW size, Proceed(to, read, size) PROVE hand.frame = "in"
  BY <1>t, <1>p DEF Proceed, Framed, LinkTypeOK
<1>g. ASSUME NEW how, GiveUp(how) PROVE hand.frame = "in"
  BY <1>t, <1>g DEF GiveUp, LinkTypeOK
<1>1. CASE Connect
  <2>1. CASE SetupTls
    BY <1>p, <1>g, <2>1, Zenon DEF SetupTls
  <2>2. CASE NegotiateVersion
    BY <1>p, <1>g, <2>2, Zenon DEF NegotiateVersion
  <2>3. CASE ReadCerts
    BY <1>t, <2>3 DEF ReadCerts, LinkInv, LinkInFrame, Returned
  <2>4. CASE DiscardAuthChallenge
    BY <1>p, <2>4, Zenon DEF DiscardAuthChallenge
  <2>5. CASE ReadNetInfo
    BY <1>p, <2>5, Zenon DEF ReadNetInfo
  <2>6. CASE ReadAddress
    BY <2>6 DEF ReadAddress
  <2>7. CASE FinishNetInfo
    BY <1>p, <2>7, Zenon DEF FinishNetInfo
  <2>8. CASE RefuseCell \/ HandshakeFails
    BY <1>g, <2>8, Zenon DEF RefuseCell, HandshakeFails
  <2> QED BY <1>1, <2>1, <2>2, <2>3, <2>4, <2>5, <2>6, <2>7, <2>8 DEF Connect, Handshake
<1>2. CASE StartLoops
  BY <1>t, <1>2 DEF StartLoops, WriteNetInfo, LinkTypeOK
<1>3. Connect \/ StartLoops \/ UNCHANGED hand
  BY DEF Next, vars, Opening, Reading, Call, OpenSend, OpenAnswer, ReaderTake, ReaderExit, HandleDestroy,
     CircuitSend, CloseCircuit, ReadCell, ReadFail, Dispatch, WriteCell, WriteExit, CloseConn, GuardHangsUp,
     GuardRelay, GuardDestroy
<1> QED BY <1>1, <1>2, <1>3

LEMMA InvNext == ConnInv /\ [Next]_vars => ConnInv'
<1> SUFFICES ASSUME ConnInv, [Next]_vars PROVE ConnInv'
  OBVIOUS
<1>1. TypeOK' /\ LinkInv' /\ BaseInv
  BY TypeNext DEF BaseInv, ConnInv
<1>2. IdsOK' /\ LifeOK' /\ OutOK'
  BY <1>1, IdsNext, LifeNext, OutNext
<1>3. \A c \in Circuits : UnbornOK(c)'
  BY <1>1, UnbornNext
<1>4. ASSUME hand'.frame = "in" PROVE \A c \in Circuits : LiveOK(c)'
  <2>1. hand.frame = "in"
    BY <1>1, <1>4, FrameNext DEF BaseInv
  <2> QED BY <2>1, LiveNext DEF ConnInv
<1> QED BY <1>1, <1>2, <1>3, <1>4 DEF ConnInv, BaseInv, CircuitsInv, UnbornOK, LiveOK

LEMMA CellLostNever == ConnInv => NoCellLost
<1> SUFFICES ASSUME ConnInv, NEW c \in Circuits, opener[c] = "up", ~Done(c)
             PROVE  /\ got[c] = [i \in 1 .. Len(got[c]) |-> i]
                    /\ Len(got[c]) + Count(inbound[c], RelayOf(c)) + InHand(c) + Count(down, RelayOf(c)) = pushed[c]
  BY DEF NoCellLost
<1>0. CircuitsInv
  BY DEF ConnInv, BaseInv, OutOK, TypeOK, LinkTypeOK
<1>1. Live(c)
  BY DEF Live
<1>2. /\ Taken(c) \in Nat /\ Count(inbound[c], RelayOf(c)) \in Nat /\ HeldOf(c, RelayOf(c)) \in Nat
      /\ Count(down, RelayOf(c)) \in Nat
  BY <1>0, <1>1, LiveWas, WayTypes
<1>3. InHand(c) = HeldOf(c, RelayOf(c))
  <2>1. readLoop.pc = "put" /\ readLoop.cell.circ = c => Held(c)
    BY <1>0, <1>1, LiveWas DEF GuardOK
  <2>2. readLoop.cell \in RelayOf(c) => readLoop.cell.circ = c
    BY DEF RelayOf
  <2> QED BY <2>1, <2>2 DEF InHand, HeldOf, Held, One
<1>4. /\ got[c] = [i \in 1 .. Taken(c) |-> i] /\ Taken(c) + InThree(c, RelayOf(c)) = pushed[c]
  BY <1>0, <1>1, LiveWas DEF WayOK
<1>5. InThree(c, RelayOf(c)) = (Count(inbound[c], RelayOf(c)) + HeldOf(c, RelayOf(c))) + Count(down, RelayOf(c))
  BY DEF InThree, InTwo
<1>6. Taken(c) + Count(inbound[c], RelayOf(c)) + HeldOf(c, RelayOf(c)) + Count(down, RelayOf(c))
        = Taken(c) + InThree(c, RelayOf(c))
  BY <1>2, <1>5
<1> QED BY <1>3, <1>4, <1>6, Zenon DEF Taken

LEMMA OutlivesNext == ConnInv /\ LinkOutlivesHandshake /\ [Next]_vars => LinkOutlivesHandshake'
<1> SUFFICES ASSUME ConnInv, LinkOutlivesHandshake, [Next]_vars, connCause' = "read"
             PROVE  socket' # "open"
  BY DEF LinkOutlivesHandshake
<1>1. CASE Connect
  BY <1>1, HandshakeStep DEF Connect, ConnInv, BaseInv, LinkOutlivesHandshake
<1>2. CASE StartLoops
  BY <1>2, WriteNetInfoStep DEF StartLoops, ConnInv, BaseInv, LinkOutlivesHandshake
<1>3. CASE ReadFail
  BY <1>3 DEF ReadFail, Fail, ConnInv, BaseInv, LifeOK, LinkInv, LinkOutlivesHandshake
<1>4. CASE UNCHANGED socket /\ (connCause' = "read" => connCause = "read")
  BY <1>4 DEF LinkOutlivesHandshake
<1>5. CASE CloseConn \/ GuardHangsUp
  BY <1>5 DEF CloseConn, GuardHangsUp
<1>6. \/ Connect \/ StartLoops \/ ReadFail \/ CloseConn \/ GuardHangsUp
      \/ UNCHANGED socket /\ (connCause' = "read" => connCause = "read")
  BY DEF Next, vars, Opening, Reading, Call, OpenSend, OpenAnswer, ReaderTake, ReaderExit, HandleDestroy,
     CircuitSend, CloseCircuit, ReadCell, Dispatch, WriteCell, WriteExit, Fail, GuardRelay, GuardDestroy
<1> QED BY <1>1, <1>2, <1>3, <1>4, <1>5, <1>6

THEOREM CircuitsInvariant == Spec => []ConnInv
<1> QED BY InvInit, InvNext, PTL DEF Spec

\* Every channel holds cells and no more than its capacity, every table is
\* indexed by what the code indexes it by.
THEOREM ConnTypeCorrect == Spec => []TypeOK
<1>1. ConnInv => TypeOK
  BY DEF ConnInv, BaseInv
<1> QED BY <1>1, CircuitsInvariant, PTL

\* NewConn takes every cell of the handshake to its last octet and no further,
\* whatever lengths the guard announces and whatever types of addresses it
\* lists, unless these need more octets than the body of a NETINFO has; then,
\* and only then, the loops start somewhere else than at a cell.
THEOREM HandshakeInFrame == Spec => []LinkInFrame
<1>1. ConnInv => LinkInFrame
  BY DEF ConnInv, BaseInv, LinkInv
<1> QED BY <1>1, CircuitsInvariant, PTL

\* Whatever mixture of certificates the guard presents, NewConn goes on only
\* with the relay whose TLS key it speaks with.
THEOREM HandshakeVouched == Spec => []LinkVouched
<1>1. ConnInv => LinkVouched
  BY DEF ConnInv, BaseInv, LinkInv
<1> QED BY <1>1, CircuitsInvariant, PTL

\* readLoop runs only when the deadline of the handshake has been taken back: a
\* connection that fails to read is one whose socket has ended.
THEOREM HandshakeLeavesNothing == Spec => []LinkOutlivesHandshake
<1>1. Init => LinkOutlivesHandshake
  BY ConnAssumption DEF Init, LinkOutlivesHandshake
<1> QED BY <1>1, OutlivesNext, CircuitsInvariant, PTL DEF Spec

\* Every RELAY cell of a circuit that is up is in the circuit's hands, in its
\* Inbound, with readLoop or on the link, in order, however many circuits the
\* connection has and whatever circuits had its id before.
THEOREM CellsArrive == Spec => []NoCellLost
<1> QED BY CellLostNever, CircuitsInvariant, PTL
=============================================================================
