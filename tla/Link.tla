-------------------------------- MODULE Link --------------------------------
(***************************************************************************)
(* NewConn: TLS, then VERSIONS, CERTS, AUTH_CHALLENGE and NETINFO from the *)
(* guard, and NETINFO to it, in one goroutine and under one deadline.      *)
(*                                                                         *)
(* The guard is external.  It sends any cells it likes, with the           *)
(* certificates of any relay, or nothing.  A cell is its size in octets    *)
(* and what NewConn looks at; NewConn is in frame while it has taken every *)
(* cell to its last octet and no further.  A key is named by its purpose,  *)
(* its owner and its generation (0: replaced).                             *)
(***************************************************************************)
EXTENDS Integers, Sequences, FiniteSets, SequencesExt

CONSTANTS None,     \* no relay, no circuit, no cause
          Relays,   \* the relays whose certificates are known
          Peer,     \* the one at the other end of the TLS connection
          CELL_BODY_LEN, \* the octets in the body of a cell
          Lengths,  \* bound: the lengths that cells of the guard announce
          MaxCerts, \* bound: certificates in a CERTS cell
          MaxAddrs  \* bound: addresses of its own in a NETINFO

ASSUME LinkAssumption ==
    /\ Peer \in Relays /\ None \notin Relays
    /\ CELL_BODY_LEN \in Nat /\ MaxCerts \in Nat
    /\ Lengths \subseteq Nat /\ \A length \in Lengths : length < 65536
    /\ MaxAddrs \in Nat /\ MaxAddrs < 256

VARIABLES hand,     \* NewConn: where it is, the identity it has verified, is it in frame?
          netinfo,  \* NetInfoCell.Decode: see NetInfo
          deadline, \* does the socket have a deadline?
          socket    \* "open", "eof" once the guard has hung up, or "closed"

Returned == {"up", "failed", "panicked"}
Waiting  == {"versions", "certs", "auth", "netinfo", "addresses"}

\* The types of addresses that unserializeIp knows, and any other.
Types == {4, 6, 0}

\* The octets taken, the octets counted in offst, the addresses to come, and of
\* each type those that were there.
NetInfo   == [read : Nat, offst : Nat, left : Nat, seen : [Types -> Nat]]
NoNetInfo == [read |-> 0, offst |-> 0, left |-> 0, seen |-> [t \in Types |-> 0]]

LinkTypeOK ==
    /\ hand \in [pc : {"tls", "reply"} \cup Waiting \cup Returned, peer : Relays \cup {None},
                 frame : {"in", "out"}]
    /\ netinfo \in NetInfo
    /\ deadline \in BOOLEAN
    /\ socket \in {"open", "eof", "closed"}

LinkInit == /\ hand = [pc |-> "tls", peer |-> None, frame |-> "in"]
            /\ netinfo = NoNetInfo
            /\ deadline = FALSE
            /\ socket = "open"

\* The next step, after "read" octets of a cell of "size".
Framed(read, size)      == IF read = size THEN hand.frame ELSE "out"
Proceed(to, read, size) == hand' = [hand EXCEPT !.pc = to, !.frame = Framed(read, size)]
GiveUp(how)             == hand' = [hand EXCEPT !.pc = how]

-----------------------------------------------------------------------------
(* The cells of the guard                                                  *)

\* The octets of a cell: circuit id, command, body.  VERSIONS still has an id of
\* two octets; its body and those of CERTS and AUTH_CHALLENGE announce their
\* length, the body of the other cells has always the same.
VersionsSize(length) == 2 + 1 + 2 + length
VariableSize(length) == 4 + 1 + 2 + length
FixedSize            == 4 + 1 + CELL_BODY_LEN

\* negotiateVersion makes a buffer for header and body, in uint16, and reads the
\* body into what is behind the header.
VersionsBuffer(length) == (5 + length) % 65536

\* discardAuthChallenge takes a header of seven octets.
ReadAuthChallenge(length) == 7 + length

\* CellCoder.ReadCell takes circuit id and command.
ReadHeader == 4 + 1

\* CertsCell.Decode takes the length and a buffer of it.
DecodeCerts(length) == 2 + length

\* unserializeIp takes type and length, and four or sixteen octets that depend
\* on the type alone; of a type it does not know it takes no more.
UnserializeIp(info, type) ==
    LET n == CASE type = 4 -> 4 [] type = 6 -> 16 [] OTHER -> 0
    IN  [read |-> info.read + 1 + 1 + n, offst |-> info.offst + 1 + 1 + n, left |-> info.left,
         seen |-> [info.seen EXCEPT ![type] = @ + 1]]

\* A plausible bug: the octet that counts the addresses is not added to offst.
DecodeNetInfoNoCount(other, total) ==
    LET time    == [NoNetInfo EXCEPT !.read = 4, !.offst = 4]
        address == UnserializeIp(time, other)
    IN  [address EXCEPT !.read = @ + 1, !.left = total]

\* NetInfoCell.Decode: the time, the client's address, and the number of the
\* addresses of the guard, ...
DecodeNetInfo(other, total) ==
    LET time    == [NoNetInfo EXCEPT !.read = 4, !.offst = 4]
        address == UnserializeIp(time, other)
    IN  [address EXCEPT !.read = @ + 1, !.offst = @ + 1, !.left = total]

\* ... and what is left of the body, if anything is, when it has them all.
DiscardRest(info) ==
    info.read + (IF info.offst < CELL_BODY_LEN THEN CELL_BODY_LEN - info.offst ELSE 0)

-----------------------------------------------------------------------------
(* Certificates                                                            *)

Identity(o)   == <<"identity", o>>
Signing(o, g) == <<"signing", o, g>>
Tls(o, g)     == <<"tls", o, g>>

Gen == {0, 1}

\* External: what relays have issued.  A replaced signing key has an expired
\* certificate; an expired certificate may still name the TLS key in use.
\* "ext" is the signer's key in the extensions.
Issued ==
    {[signer |-> Identity(o), ext |-> Identity(o), key |-> Signing(o, g), expired |-> g = 0] :
       o \in Relays, g \in Gen}
    \cup {[signer |-> Signing(o, g), ext |-> None, key |-> Tls(o, t), expired |-> e] :
       o \in Relays, g \in Gen, t \in Gen, e \in BOOLEAN}

CertsCells == BoundedSeq([type : {4, 5}, cert : Issued], MaxCerts)

\* The last certificate of a type that the cell has, or None.
CertOf(type, certs) ==
    LET i == SelectLastInSeq(certs, LAMBDA c : c.type = type)
    IN  IF i = 0 THEN None ELSE certs[i].cert

\* A nil certificate is dereferenced, and ed25519.Verify panics on a key of the
\* wrong length.
VerifyPanics(cert4, cert5) ==
    \/ cert4 = None
    \/ ~cert4.expired /\ (cert4.ext = None \/ cert5 = None)

Verify(key, cert) == cert.signer = key

\* A plausible bug: the TLS certificate is not compared.
VerifyConnectionAnyTls(cert4, cert5) ==
    /\ ~cert4.expired /\ Verify(cert4.ext, cert4)
    /\ ~cert5.expired /\ Verify(cert4.key, cert5)

VerifyConnection(cert4, cert5) ==
    /\ ~cert4.expired /\ Verify(cert4.ext, cert4)
    /\ ~cert5.expired /\ Verify(cert4.key, cert5)
    /\ cert5.key = Tls(Peer, 1)

-----------------------------------------------------------------------------
(* NewConn                                                                 *)

\* setupTls, then SetDeadline.
SetupTls ==
    /\ hand.pc = "tls"
    /\ \/ socket = "open" /\ Proceed("versions", 0, 0) /\ deadline' = TRUE
       \/ GiveUp("failed") /\ UNCHANGED deadline
    /\ UNCHANGED <<netinfo, socket>>

\* A buffer that has wrapped around has no place behind the header.
NegotiateVersion ==
    /\ hand.pc = "versions"
    /\ \E length \in Lengths, versions \in SUBSET {3, 4, 5} :
         IF VersionsBuffer(length) < 5 THEN GiveUp("panicked")
         ELSE IF versions \cap {4, 5} # {} /\ length >= 2 * Cardinality(versions)
           THEN Proceed("certs", 5 + (VersionsBuffer(length) - 5), VersionsSize(length))
           ELSE GiveUp("failed")
    /\ UNCHANGED <<netinfo, deadline, socket>>

\* Decode panics on an empty body, and on one that ends before the certificates
\* it announces.
ReadCerts ==
    /\ hand.pc = "certs"
    /\ \/ GiveUp("panicked")
       \/ \E certs \in CertsCells, length \in Lengths \ {0} :
            LET cert4 == CertOf(4, certs)
                cert5 == CertOf(5, certs)
            IN  IF VerifyPanics(cert4, cert5) THEN GiveUp("panicked")
                ELSE IF VerifyConnection(cert4, cert5)
                  THEN hand' = [hand EXCEPT !.pc = "auth", !.peer = cert4.ext[2],
                                  !.frame = Framed(ReadHeader + DecodeCerts(length), VariableSize(length))]
                  ELSE GiveUp("failed")
    /\ UNCHANGED <<netinfo, deadline, socket>>

DiscardAuthChallenge ==
    /\ hand.pc = "auth"
    /\ \E length \in Lengths : Proceed("netinfo", ReadAuthChallenge(length), VariableSize(length))
    /\ UNCHANGED <<netinfo, deadline, socket>>

\* NETINFO, up to the number of the guard's addresses, ...
ReadNetInfo ==
    /\ hand.pc = "netinfo"
    /\ \E other \in Types, total \in 0 .. MaxAddrs : netinfo' = DecodeNetInfo(other, total)
    /\ Proceed("addresses", 0, 0)
    /\ UNCHANGED <<deadline, socket>>

\* ... each of them, whatever octet stands where its type should, ...
ReadAddress ==
    /\ hand.pc = "addresses"
    /\ netinfo.left > 0
    /\ \E type \in Types :
         netinfo' = [UnserializeIp(netinfo, type) EXCEPT !.left = @ - 1]
    /\ UNCHANGED <<hand, deadline, socket>>

\* ... and the rest.
FinishNetInfo ==
    /\ hand.pc = "addresses"
    /\ netinfo.left = 0
    /\ Proceed("reply", ReadHeader + DiscardRest(netinfo), FixedSize)
    /\ UNCHANGED <<netinfo, deadline, socket>>

\* A plausible bug: the deadline is not taken away.
WriteNetInfoKeepsDeadline ==
    /\ hand.pc = "reply"
    /\ hand' = [hand EXCEPT !.pc = "up", !.peer = None]
    /\ netinfo' = NoNetInfo
    /\ UNCHANGED <<deadline, socket>>

\* The client's NETINFO; the deadline is cleared and NewConn returns: from here
\* on nobody asks for the certificates.
WriteNetInfo ==
    /\ hand.pc = "reply"
    /\ hand' = [hand EXCEPT !.pc = "up", !.peer = None]
    /\ netinfo' = NoNetInfo
    /\ deadline' = FALSE
    /\ UNCHANGED socket

\* Another cell than the one expected, or a VERSIONS header that comes in pieces.
RefuseCell ==
    /\ hand.pc \in Waiting \ {"addresses"}
    /\ GiveUp("failed")
    /\ UNCHANGED <<netinfo, deadline, socket>>

\* The end of the stream or the deadline.  unserializeIp panics where the other
\* readers return the error; the socket stays as it is.
HandshakeFails ==
    /\ hand.pc \in Waiting \cup {"reply"}
    /\ deadline \/ socket # "open"
    /\ \/ GiveUp("failed")
       \/ hand.pc \in {"netinfo", "addresses"} /\ GiveUp("panicked")
    /\ UNCHANGED <<netinfo, deadline, socket>>

Handshake ==
    \/ SetupTls \/ NegotiateVersion \/ ReadCerts \/ DiscardAuthChallenge
    \/ ReadNetInfo \/ ReadAddress \/ FinishNetInfo
    \/ RefuseCell \/ HandshakeFails

-----------------------------------------------------------------------------
(* Properties                                                              *)

\* The octets of the NETINFO body that hold something, by the addresses seen.
NetInfoUsed == 4 + 1 + 6 * netinfo.seen[4] + 18 * netinfo.seen[6] + 2 * netinfo.seen[0]

\* What NewConn leaves in the socket starts with a cell: four readers with
\* four ideas of a header take every cell whole, and no octet more, whatever
\* lengths the guard announces and whatever types of addresses it lists.  The
\* one exception is a NETINFO with more addresses than a body has room for:
\* nothing compares the two, and Decode reads on in the cells behind it.
LinkInFrame ==
    IF hand.pc = "reply"
      THEN hand.frame = "in" <=> NetInfoUsed <= CELL_BODY_LEN
      ELSE hand.pc \notin Returned => hand.frame = "in"

\* Whatever mixture of current, replaced and other relays' certificates the
\* guard presents, NewConn takes it for the relay whose TLS key it speaks with,
\* or for nobody.
LinkVouched == hand.pc \in {"auth", "netinfo", "addresses", "reply"} => hand.peer = Peer

\* NewConn returns although the guard may say nothing for ever.
NewConnReturns == <>(hand.pc \in Returned)
=============================================================================
