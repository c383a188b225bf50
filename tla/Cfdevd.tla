------------------------------- MODULE Cfdevd -------------------------------
(***************************************************************************)
(* cfdevd, the privileged helper daemon of cf dev (cfdevd/main.go,         *)
(* cfdevd/cmd). launchd hands it a listening Unix socket; run() accepts    *)
(* connections in an endless loop and serves each in its own goroutine    *)
(* (handleRequest): a handshake, one instruction byte decoded into a       *)
(* command, and the command's Execute, which writes one status byte back.  *)
(* Clients connect, write their message and may close at any time; they   *)
(* are the environment and are not fair.                                   *)
(***************************************************************************)
EXTENDS Naturals, Sequences, FiniteSets

CONSTANTS Conns,    \* the client connections made to the daemon
          Codes,    \* the instruction bytes clients send
          MaxFds,   \* the descriptors the daemon process may hold open
          BadHandshake, Eof, NoMessage  \* distinct non-byte sentinels

ASSUME CfdevdAssumption ==
    /\ IsFiniteSet(Conns)
    /\ Codes \subseteq 0..255
    /\ MaxFds \in Nat
    /\ {BadHandshake, Eof, NoMessage} \cap 0..255 = {}

\* What a client writes: a bad handshake, a good handshake and then the end
\* of the stream, or a good handshake and an instruction byte.
\* BadHandshake and Eof are the first two; NoMessage is "not dialled yet".
Messages == Codes \cup {BadHandshake, Eof}

UninstallType == 1
RemoveIPAliasType == 2
AddIPAliasType == 3
BindType == 6
Kinds == {"Uninstall", "RemoveIPAlias", "AddIPAlias", "Bind", "Unimplemented"}
NoCommand == "none"

\* The failure byte the Unimplemented command always replies with.
UnimplementedCode == 33

HandlerPcs == {"idle", "backlog", "handshake", "decode", "execute", "finished"}
Returns == {"none", "ok", "execFailed", "ackFailed"}

VARIABLES
    handler,     \* where the connection is: not dialled, waiting in the
                 \* listen backlog, or at a step of its handleRequest goroutine
    sent,        \* what the client wrote on the connection
    peerClosed,  \* connections whose client end is closed
    fds,         \* connections whose descriptor the daemon holds open
    command,     \* the command UnmarshalCommand decoded
    reply,       \* the status bytes that reached the client
    ret,         \* the error the command's Execute returned
    registered   \* the daemon's launchd registration exists

vars == <<handler, sent, peerClosed, fds, command, reply, ret, registered>>

TypeOK ==
    /\ handler \in [Conns -> HandlerPcs]
    /\ sent \in [Conns -> Messages \cup {NoMessage}]
    /\ peerClosed \subseteq Conns
    /\ fds \subseteq Conns /\ Cardinality(fds) <= MaxFds
    /\ command \in [Conns -> Kinds \cup {NoCommand}]
    /\ reply \in [Conns -> Seq(0..255)]
    /\ ret \in [Conns -> Returns]
    /\ registered \in BOOLEAN

\* run(): launchd has registered the daemon and handed it the listener.
Init ==
    /\ handler = [c \in Conns |-> "idle"]
    /\ sent = [c \in Conns |-> NoMessage]
    /\ peerClosed = {}
    /\ fds = {}
    /\ command = [c \in Conns |-> NoCommand]
    /\ reply = [c \in Conns |-> <<>>]
    /\ ret = [c \in Conns |-> "none"]
    /\ registered = TRUE

\* The client dials the socket and writes its whole message; a client that
\* sends no instruction closes its end right after the handshake.
Dial(c) ==
    /\ handler[c] = "idle"
    /\ \E m \in Messages :
         /\ sent' = [sent EXCEPT ![c] = m]
         /\ peerClosed' = IF m = Eof THEN peerClosed \cup {c} ELSE peerClosed
    /\ handler' = [handler EXCEPT ![c] = "backlog"]
    /\ UNCHANGED <<fds, command, reply, ret, registered>>

\* The accept loop of run(): AcceptUnix takes a descriptor (it fails, and the
\* loop retries, while the table is full); `defer conn.Close()' sits in a
\* loop that never returns, so the descriptor is never given back.
Accept(c) ==
    /\ handler[c] = "backlog"
    /\ Cardinality(fds) < MaxFds
    /\ fds' = fds \cup {c}
    /\ handler' = [handler EXCEPT ![c] = "handshake"]
    /\ UNCHANGED <<sent, peerClosed, command, reply, ret, registered>>

\* handleRequest: a failed doHandshake returns with no reply.
Handshake(c) ==
    /\ handler[c] = "handshake"
    /\ handler' = [handler EXCEPT ![c] =
                     IF sent[c] = BadHandshake THEN "finished" ELSE "decode"]
    /\ UNCHANGED <<sent, peerClosed, fds, command, reply, ret, registered>>

\* The switch of UnmarshalCommand on the instruction byte.
KindOf(instr) ==
    CASE instr = BindType          -> "Bind"
      [] instr = UninstallType     -> "Uninstall"
      [] instr = RemoveIPAliasType -> "RemoveIPAlias"
      [] instr = AddIPAliasType    -> "AddIPAlias"
      [] OTHER                     -> "Unimplemented"

\* UnmarshalCommand: the error of binary.Read is dropped, so at the end of
\* the stream the instruction keeps its zero value. Only the Bind payload
\* can fail to decode, and then handleRequest returns with no reply.
Decode(c) ==
    /\ handler[c] = "decode"
    /\ LET instr == IF sent[c] = Eof THEN 0 ELSE sent[c]
       IN \/ /\ command' = [command EXCEPT ![c] = KindOf(instr)]
             /\ handler' = [handler EXCEPT ![c] = "execute"]
          \/ /\ KindOf(instr) = "Bind"
             /\ handler' = [handler EXCEPT ![c] = "finished"]
             /\ UNCHANGED command
    /\ UNCHANGED <<sent, peerClosed, fds, reply, ret, registered>>

\* conn.Write of one status byte: it reaches the client unless the client
\* has closed its end, and then the write fails.
WriteFails(c) == c \in peerClosed
WriteStatus(c, code) ==
    reply' = IF WriteFails(c) THEN reply
             ELSE [reply EXCEPT ![c] = Append(@, code)]

\* UninstallCommand.Execute: RemoveDaemon, then 0 or 1 on the connection;
\* the error of conn.Write is dropped and RemoveDaemon's error returned.
ExecuteUninstall(c) ==
    /\ handler[c] = "execute" /\ command[c] = "Uninstall"
    /\ \E removed \in BOOLEAN :
         /\ registered' = (registered /\ ~removed)
         /\ WriteStatus(c, IF removed THEN 0 ELSE 1)
         /\ ret' = [ret EXCEPT ![c] = IF removed THEN "ok" ELSE "execFailed"]
    /\ handler' = [handler EXCEPT ![c] = "finished"]
    /\ UNCHANGED <<sent, peerClosed, fds, command>>

\* A bug-shaped variant of the other commands' Execute: a failed operation
\* returns its error without writing a status byte.
ExecuteCommandNoFailReply(c) ==
    /\ handler[c] = "execute" /\ command[c] \in Kinds \ {"Uninstall"}
    /\ \E succeeded \in IF command[c] = "Unimplemented" THEN {FALSE} ELSE BOOLEAN :
         /\ IF succeeded THEN WriteStatus(c, 0) ELSE UNCHANGED reply
         /\ ret' = [ret EXCEPT ![c] = IF succeeded THEN "ok" ELSE "execFailed"]
    /\ handler' = [handler EXCEPT ![c] = "finished"]
    /\ UNCHANGED <<sent, peerClosed, fds, command, registered>>

\* Execute of AddIPAlias, RemoveIPAlias, Bind and Unimplemented: 0 on
\* success, a non-zero byte on failure, always 33 for Unimplemented; a
\* failed write returns "failed to write error code to connection".
ExecuteCommand(c) ==
    /\ handler[c] = "execute" /\ command[c] \in Kinds \ {"Uninstall"}
    /\ \E succeeded \in IF command[c] = "Unimplemented" THEN {FALSE} ELSE BOOLEAN :
         /\ WriteStatus(c, IF command[c] = "Unimplemented" THEN UnimplementedCode
                           ELSE IF succeeded THEN 0 ELSE 1)
         /\ ret' = [ret EXCEPT ![c] =
                      IF WriteFails(c) THEN "ackFailed"
                      ELSE IF succeeded \/ command[c] = "Unimplemented" THEN "ok"
                      ELSE "execFailed"]
    /\ handler' = [handler EXCEPT ![c] = "finished"]
    /\ UNCHANGED <<sent, peerClosed, fds, command, registered>>

\* The client closes its end of a dialled connection.
ClientClose(c) ==
    /\ handler[c] # "idle" /\ c \notin peerClosed
    /\ peerClosed' = peerClosed \cup {c}
    /\ UNCHANGED <<handler, sent, fds, command, reply, ret, registered>>

Serve(c) ==
    \/ Accept(c) \/ Handshake(c) \/ Decode(c)
    \/ ExecuteUninstall(c) \/ ExecuteCommand(c)

Next == \E c \in Conns : Dial(c) \/ Serve(c) \/ ClientClose(c)

\* The accept loop and every handler goroutine get scheduled.
Fairness == \A c \in Conns : WF_vars(Serve(c))

Spec == Init /\ [][Next]_vars /\ Fairness
-----------------------------------------------------------------------------
(* The wire protocol of handleRequest: a connection whose handshake or     *)
(* decoding failed, or that is still being served, has had no status byte; *)
(* one whose command executed has had exactly one, if its client listened. *)
ReplyProtocol ==
    \A c \in Conns :
        /\ handler[c] # "finished" => reply[c] = <<>>
        /\ handler[c] = "finished" /\ c \notin peerClosed =>
              Len(reply[c]) = IF command[c] = NoCommand THEN 0 ELSE 1

(* Failure isolation: every connection accepted into the backlog is       *)
(* eventually served to the end of handleRequest, however many clients    *)
(* came before it.                                                        *)
EveryConnectionServed ==
    \A c \in Conns : handler[c] = "backlog" ~> handler[c] = "finished"
=============================================================================
