---------------------------- MODULE CfdevdProofs ----------------------------
(***************************************************************************)
(* Proofs about the cfdevd daemon, for every set of connections, every set *)
(* of instruction bytes and every descriptor limit.                        *)
(***************************************************************************)
EXTENDS Cfdevd, FiniteSetTheorems, TLAPS

USE CfdevdAssumption

(* The strengthening of ReplyProtocol and of the descriptor bound: a       *)
(* connection holds a descriptor exactly from its accept on; it has no     *)
(* command before decoding and one from decoding on; nothing is written    *)
(* before Execute, and Execute writes at most one byte, which the client   *)
(* got if its end was still open.                                          *)
ConnInv(c) ==
    /\ c \in fds <=> handler[c] \notin {"idle", "backlog"}
    /\ handler[c] \in {"idle", "backlog", "handshake", "decode"} =>
          command[c] = NoCommand /\ reply[c] = <<>>
    /\ handler[c] = "execute" => command[c] # NoCommand /\ reply[c] = <<>>
    /\ handler[c] = "finished" =>
          /\ Len(reply[c]) <= 1
          /\ command[c] = NoCommand => reply[c] = <<>>
          /\ command[c] # NoCommand /\ c \notin peerClosed => Len(reply[c]) = 1

IInv == TypeOK /\ \A c \in Conns : ConnInv(c)

LEMMA IInvInit == Init => IInv
<1> SUFFICES ASSUME Init PROVE IInv
  OBVIOUS
<1>1. TypeOK
  <2>1. Cardinality(fds) <= MaxFds
    BY FS_EmptySet DEF Init
  <2>2. \A c \in Conns : reply[c] \in Seq(0..255)
    BY DEF Init
  <2>3. QED
    BY <2>1, <2>2 DEF Init, TypeOK, HandlerPcs, Returns
<1>2. \A c \in Conns : ConnInv(c)
  BY DEF Init, ConnInv
<1>3. QED
  BY <1>1, <1>2 DEF IInv

\* What a step of connection c leaves alone: the other connections keep
\* their handler, command, reply and descriptor, and closed ends stay closed.
Frame(c) ==
    /\ \A d \in Conns \ {c} :
          /\ handler'[d] = handler[d]
          /\ command'[d] = command[d]
          /\ reply'[d] = reply[d]
          /\ d \in fds' <=> d \in fds
    /\ peerClosed \subseteq peerClosed'

\* A step of one connection that keeps that connection's invariant keeps
\* every connection's.
LEMMA OthersKeep ==
    ASSUME NEW c \in Conns, IInv, Frame(c), ConnInv(c)'
    PROVE  \A d \in Conns : ConnInv(d)'
<1> SUFFICES ASSUME NEW d \in Conns PROVE ConnInv(d)'
  OBVIOUS
<1>1. CASE d = c
  BY <1>1
<1>2. CASE d # c
  <2>1. ConnInv(d)
    BY DEF IInv
  <2>2. QED
    BY <1>2, <2>1 DEF Frame, ConnInv
<1>3. QED
  BY <1>1, <1>2

\* The descriptors the daemon holds form a finite set.
LEMMA FdsFinite == TypeOK => IsFiniteSet(fds)
  BY FS_Subset DEF TypeOK

LEMMA IInvStep == IInv /\ [Next]_vars => IInv'
<1> SUFFICES ASSUME IInv, [Next]_vars PROVE IInv'
  OBVIOUS
<1> USE DEF IInv
<1>1. ASSUME NEW c \in Conns, Dial(c) PROVE IInv'
  <2>1. TypeOK'
    BY <1>1 DEF Dial, TypeOK, Messages, HandlerPcs
  <2>2. ConnInv(c)'
    BY <1>1 DEF Dial, ConnInv, TypeOK
  <2>3. Frame(c)
    BY <1>1 DEF Dial, Frame, TypeOK
  <2>4. QED
    BY <2>1, <2>2, <2>3, OthersKeep
<1>2. ASSUME NEW c \in Conns, Accept(c) PROVE IInv'
  <2>1. c \notin fds
    BY <1>2 DEF Accept, ConnInv
  <2>2. Cardinality(fds') = Cardinality(fds) + 1
    BY <1>2, <2>1, FdsFinite, FS_AddElement DEF Accept
  <2>3. Cardinality(fds) \in Nat
    BY FdsFinite, FS_CardinalityType
  <2>4. TypeOK'
    BY <1>2, <2>2, <2>3 DEF Accept, TypeOK, HandlerPcs
  <2>5. ConnInv(c)'
    BY <1>2 DEF Accept, ConnInv, TypeOK
  <2>6. Frame(c)
    BY <1>2 DEF Accept, Frame, TypeOK
  <2>7. QED
    BY <2>4, <2>5, <2>6, OthersKeep
<1>3. ASSUME NEW c \in Conns, Handshake(c) PROVE IInv'
  <2>1. TypeOK'
    BY <1>3 DEF Handshake, TypeOK, HandlerPcs
  <2>2. ConnInv(c)'
    <3>1. ConnInv(c) /\ c \in fds /\ reply[c] = <<>> /\ command[c] = NoCommand
      BY <1>3 DEF Handshake, ConnInv
    <3>2. handler'[c] \in {"decode", "finished"}
      BY <1>3 DEF Handshake, TypeOK
    <3>3. QED
      BY <1>3, <3>1, <3>2 DEF Handshake, ConnInv
  <2>3. Frame(c)
    BY <1>3 DEF Handshake, Frame, TypeOK
  <2>4. QED
    BY <2>1, <2>2, <2>3, OthersKeep
<1>4. ASSUME NEW c \in Conns, Decode(c) PROVE IInv'
  <2> DEFINE instr == IF sent[c] = Eof THEN 0 ELSE sent[c]
  <2>1. KindOf(instr) \in Kinds /\ KindOf(instr) # NoCommand
    BY DEF KindOf, Kinds, NoCommand
  <2>2. /\ handler[c] = "decode" /\ c \in fds /\ reply[c] = <<>>
        /\ UNCHANGED <<sent, peerClosed, fds, reply, ret, registered>>
    BY <1>4 DEF Decode, ConnInv
  <2>3. CASE /\ command' = [command EXCEPT ![c] = KindOf(instr)]
             /\ handler' = [handler EXCEPT ![c] = "execute"]
    <3>1. TypeOK'
      BY <2>1, <2>2, <2>3 DEF TypeOK, HandlerPcs
    <3>2. ConnInv(c)'
      BY <2>1, <2>2, <2>3 DEF ConnInv, TypeOK
    <3>3. Frame(c)
      BY <2>2, <2>3 DEF Frame, TypeOK
    <3>4. QED
      BY <3>1, <3>2, <3>3, OthersKeep
  <2>4. CASE /\ handler' = [handler EXCEPT ![c] = "finished"]
             /\ UNCHANGED command
    <3>1. TypeOK'
      BY <2>2, <2>4 DEF TypeOK, HandlerPcs
    <3>2. ConnInv(c)'
      BY <2>2, <2>4 DEF ConnInv, TypeOK
    <3>3. Frame(c)
      BY <2>2, <2>4 DEF Frame, TypeOK
    <3>4. QED
      BY <3>1, <3>2, <3>3, OthersKeep
  <2>5. QED
    BY <1>4, <2>3, <2>4 DEF Decode
<1>5. ASSUME NEW c \in Conns, ExecuteUninstall(c) PROVE IInv'
  <2>1. reply[c] = <<>> /\ command[c] # NoCommand
    BY <1>5 DEF ExecuteUninstall, ConnInv
  <2>2. TypeOK'
    BY <1>5 DEF ExecuteUninstall, WriteStatus, WriteFails, TypeOK, HandlerPcs, Returns
  <2>3. ConnInv(c)'
    BY <1>5, <2>1 DEF ExecuteUninstall, WriteStatus, WriteFails, ConnInv, TypeOK
  <2>4. Frame(c)
    BY <1>5 DEF ExecuteUninstall, WriteStatus, WriteFails, Frame, TypeOK
  <2>5. QED
    BY <2>2, <2>3, <2>4, OthersKeep
<1>6. ASSUME NEW c \in Conns, ExecuteCommand(c) PROVE IInv'
  <2>1. reply[c] = <<>> /\ command[c] # NoCommand
    BY <1>6 DEF ExecuteCommand, ConnInv
  <2>2. TypeOK'
    BY <1>6 DEF ExecuteCommand, WriteStatus, WriteFails, TypeOK, HandlerPcs, Returns,
                UnimplementedCode
  <2>3. ConnInv(c)'
    BY <1>6, <2>1 DEF ExecuteCommand, WriteStatus, WriteFails, ConnInv, TypeOK
  <2>4. Frame(c)
    BY <1>6 DEF ExecuteCommand, WriteStatus, WriteFails, Frame, TypeOK
  <2>5. QED
    BY <2>2, <2>3, <2>4, OthersKeep
<1>7. ASSUME NEW c \in Conns, ClientClose(c) PROVE IInv'
  <2>1. TypeOK'
    BY <1>7 DEF ClientClose, TypeOK
  <2>2. ConnInv(c)'
    BY <1>7 DEF ClientClose, ConnInv
  <2>3. Frame(c)
    BY <1>7 DEF ClientClose, Frame, TypeOK
  <2>4. QED
    BY <2>1, <2>2, <2>3, OthersKeep
<1>8. CASE UNCHANGED vars
  BY <1>8 DEF vars, TypeOK, ConnInv
<1>9. QED
  BY <1>1, <1>2, <1>3, <1>4, <1>5, <1>6, <1>7, <1>8 DEF Next, Serve

(* The descriptors cfdevd holds never exceed its limit, and every variable *)
(* keeps its type, whatever the clients do.                                *)
THEOREM DaemonTypeCorrect == Spec => []TypeOK
<1>1. IInv => TypeOK
  BY DEF IInv
<1>2. QED
  BY IInvInit, IInvStep, <1>1, PTL DEF Spec

LEMMA IInvImpliesProtocol == IInv => ReplyProtocol
  BY DEF IInv, TypeOK, HandlerPcs, ConnInv, ReplyProtocol

(* handleRequest keeps the wire protocol in every interleaving of clients  *)
(* and handler goroutines: no status byte before Execute or after a failed *)
(* handshake or decode, exactly one after Execute if the client listened.  *)
THEOREM ReplyProtocolHolds == Spec => []ReplyProtocol
  BY IInvInit, IInvStep, IInvImpliesProtocol, PTL DEF Spec

=============================================================================
