--------------------------- MODULE NativeConnector ---------------------------
(***************************************************************************)
(* hysteria2 and vless reality: the face nativeConnect builds over a child *)
(* process (lib/core/transports.js), the child (native/main.go), and its   *)
(* logical connection to the upstream server, which sends the request with *)
(* the first bytes it writes and reads the response header before the      *)
(* first it reads (native/vless.go, native/hysteria2.go).                  *)
(*                                                                         *)
(* Three actors: Node's event loop, the child's two copying goroutines and *)
(* the server with the target behind it, which is external.  A byte is its *)
(* position in its direction; 0 is the response header.  A pipe holds what *)
(* one side wrote and the other has not read, what still waits inside Node *)
(* included.                                                               *)
(***************************************************************************)
EXTENDS Naturals, Sequences

CONSTANTS
    MaxUp,   \* bound on the client's bytes
    MaxDown  \* bound on the target's bytes

VARIABLES
    host,     \* the process that holds the face: "up" or "crashed"
    child,    \* the connector: see Children
    exited,   \* ended: the "exit" event was seen
    stdin,    \* what the face wrote and the child has not read
    stdinEnd, \* child.stdin.end() was called
    stdout,   \* what the child wrote and the face has not read
    reading,  \* the face's read: "open", "ended" or "destroyed"
    closed,   \* face.close() was called
    killer,   \* its timer is running
    upCopy,   \* io.Copy(conn, os.Stdin) is running
    downCopy, \* io.Copy(os.Stdout, conn) is running
    asked,    \* requestWritten
    headRead, \* responseRead
    inbound,  \* what the server sent and the child has not read
    far,      \* the connection to the server: "open", "ended" or "broken"
    headed,   \* it sent its response header
    offered,  \* the bytes the face was given to write
    carried,  \* the bytes the target got
    said,     \* the bytes the target sent
    relayed   \* the bytes the face's read has yielded

nodeVars  == <<host, exited, reading, closed, killer, offered, relayed>>
childVars == <<child, upCopy, downCopy, asked, headRead>>
farVars   == <<far, headed, carried, said>>
pipes     == <<stdin, stdinEnd, stdout, inbound>>
vars      == <<nodeVars, childVars, farVars, pipes>>

\* "done": both copies ended; "failed": any other death.
Children == {"spawning", "dialing", "relaying", "done", "failed"}

Dead == child \in {"done", "failed"}

Run(before, n) == [i \in 1 .. n |-> before + i]

TypeOK ==
    /\ host \in {"up", "crashed"} /\ child \in Children
    /\ reading \in {"open", "ended", "destroyed"} /\ far \in {"open", "ended", "broken"}
    /\ {exited, stdinEnd, closed, killer, upCopy, downCopy, asked, headRead, headed}
          \subseteq BOOLEAN
    /\ {stdin, carried, inbound, stdout, relayed} \subseteq Seq(Nat)
    /\ {offered, said} \subseteq Nat

\* spawn() has returned and the face is resolved at once.
Init ==
    /\ host = "up" /\ child = "spawning"
    /\ exited = FALSE /\ reading = "open" /\ closed = FALSE /\ killer = FALSE
    /\ stdin = <<>> /\ stdinEnd = FALSE /\ stdout = <<>> /\ inbound = <<>>
    /\ upCopy = TRUE /\ downCopy = TRUE /\ asked = FALSE /\ headRead = FALSE
    /\ far = "open" /\ headed = FALSE
    /\ offered = 0 /\ carried = <<>> /\ said = 0 /\ relayed = <<>>

-----------------------------------------------------------------------------
(* Node.                                                                   *)

\* The child runs, or "error" is emitted, for which there is no listener.
Spawn ==
    /\ host = "up" /\ child = "spawning"
    /\ \/ child' = "dialing" /\ UNCHANGED host
       \/ host' = "crashed" /\ UNCHANGED child
    /\ UNCHANGED <<exited, reading, closed, killer, offered, relayed,
                   upCopy, downCopy, asked, headRead, farVars, pipes>>

\* face.write(data) of n bytes; its callers have not closed the face.
Write(n) ==
    /\ host = "up" /\ ~closed /\ offered + n <= MaxUp
    /\ offered' = offered + n
    /\ stdin' = IF exited THEN stdin ELSE stdin \o Run(offered, n)
    /\ UNCHANGED <<host, exited, reading, closed, killer, relayed, childVars,
                   farVars, stdinEnd, stdout, inbound>>

\* What the dead child did not read fails to be written: stdin emits "error",
\* for which there is no listener.
StdinError ==
    /\ host = "up" /\ Dead /\ ~exited /\ stdin # <<>>
    /\ host' = "crashed"
    /\ UNCHANGED <<exited, reading, closed, killer, offered, relayed, childVars,
                   farVars, pipes>>

\* "exit": Node has destroyed stdin with what it held.
Exit ==
    /\ host = "up" /\ Dead /\ ~exited
    /\ exited' = TRUE /\ stdin' = <<>>
    /\ UNCHANGED <<host, reading, closed, killer, offered, relayed, childVars,
                   farVars, stdinEnd, stdout, inbound>>

\* The generator over stdout yields what there is; stdout ends with the child.
Read ==
    /\ host = "up" /\ reading = "open"
    /\ \/ /\ stdout # <<>>
          /\ relayed' = relayed \o stdout /\ stdout' = <<>>
          /\ UNCHANGED reading
       \/ /\ stdout = <<>> /\ Dead
          /\ reading' = "ended"
          /\ UNCHANGED <<relayed, stdout>>
    /\ UNCHANGED <<host, exited, closed, killer, offered, childVars, farVars,
                   stdin, stdinEnd, inbound>>

\* Mutant: the test of ended is the wrong way round.
CloseKillsTheDead ==
    /\ host = "up" /\ ~closed
    /\ closed' = TRUE /\ stdinEnd' = TRUE
    /\ reading' = IF reading = "open" THEN "destroyed" ELSE reading
    /\ killer' = exited
    /\ UNCHANGED <<host, exited, offered, relayed, childVars, farVars, stdin,
                   stdout, inbound>>

\* face.close().  A second call changes nothing but the number of timers.
Close ==
    /\ host = "up" /\ ~closed
    /\ closed' = TRUE /\ stdinEnd' = TRUE
    /\ reading' = IF reading = "open" THEN "destroyed" ELSE reading
    /\ killer' = ~exited
    /\ UNCHANGED <<host, exited, offered, relayed, childVars, farVars, stdin,
                   stdout, inbound>>

\* The timer fires: a child that still runs is killed.
Kill ==
    /\ host = "up" /\ killer /\ child # "spawning"
    /\ killer' = FALSE
    /\ child' = IF Dead THEN child ELSE "failed"
    /\ UNCHANGED <<host, exited, reading, closed, offered, relayed,
                   upCopy, downCopy, asked, headRead, farVars, pipes>>

-----------------------------------------------------------------------------
(* The child.                                                              *)

\* dial() returns, or the process exits with 1.
Dial ==
    /\ child = "dialing"
    /\ child' \in {"relaying", "failed"}
    /\ UNCHANGED <<nodeVars, upCopy, downCopy, asked, headRead, farVars, pipes>>

\* The client's bytes go on, the request before the first of them.  On a connection
\* that is over a write may succeed once more.  At the end of stdin the copy
\* is over, and conn has no CloseWrite to tell the server.
CopyUp ==
    /\ child = "relaying" /\ upCopy
    /\ \/ /\ stdin # <<>>
          /\ stdin' = <<>> /\ asked' = TRUE
          /\ \/ far = "open" /\ carried' = carried \o stdin /\ UNCHANGED upCopy
             \/ far # "open" /\ upCopy' \in BOOLEAN /\ UNCHANGED carried
       \/ /\ stdin = <<>> /\ stdinEnd
          /\ upCopy' = FALSE
          /\ UNCHANGED <<stdin, asked, carried>>
    /\ UNCHANGED <<nodeVars, child, downCopy, headRead, far, headed, said,
                   stdinEnd, stdout, inbound>>

\* Mutant: the response header is passed on.
CopyDownWithHead ==
    /\ child = "relaying" /\ downCopy
    /\ inbound # <<>> /\ inbound' = <<>>
    /\ headRead' = TRUE /\ stdout' = stdout \o inbound
    /\ UNCHANGED <<nodeVars, child, upCopy, downCopy, asked, farVars, stdin, stdinEnd>>

\* The server's bytes go on without the header.  A stdout that Node destroyed
\* kills the process or ends the copy; so does the server's end the copy, before
\* the header or after it.  An error of the connection ends it too, with what has
\* not been read: it is printed, and main goes on as after an end.
CopyDown ==
    /\ child = "relaying" /\ downCopy
    /\ \/ /\ inbound # <<>>
          /\ inbound' = <<>> /\ headRead' = TRUE
          /\ LET bytes == IF headRead THEN inbound ELSE Tail(inbound)
             IN  IF reading = "destroyed" /\ bytes # <<>>
                 THEN /\ \/ child' = "failed" /\ UNCHANGED downCopy
                         \/ downCopy' = FALSE /\ UNCHANGED child
                      /\ UNCHANGED stdout
                 ELSE stdout' = stdout \o bytes /\ UNCHANGED <<child, downCopy>>
       \/ /\ far = "broken" \/ (far = "ended" /\ inbound = <<>>)
          /\ downCopy' = FALSE
          /\ UNCHANGED <<inbound, headRead, stdout, child>>
    /\ UNCHANGED <<nodeVars, upCopy, asked, farVars, stdin, stdinEnd>>

\* Mutant: the first copy to end is waited for, not both.
LeaveEarly ==
    /\ child = "relaying" /\ (~upCopy \/ ~downCopy)
    /\ child' = "done"
    /\ UNCHANGED <<nodeVars, upCopy, downCopy, asked, headRead, farVars, pipes>>

\* wg.Wait() returns, and main with it.
Leave ==
    /\ child = "relaying" /\ ~upCopy /\ ~downCopy
    /\ child' = "done"
    /\ UNCHANGED <<nodeVars, upCopy, downCopy, asked, headRead, farVars, pipes>>

\* A panic, or a kill from outside.
Die ==
    /\ child \in {"dialing", "relaying"}
    /\ child' = "failed"
    /\ UNCHANGED <<nodeVars, upCopy, downCopy, asked, headRead, farVars, pipes>>

-----------------------------------------------------------------------------
(* The server, which knows the target once it has the request.             *)

FarAnswers(n) ==
    /\ asked /\ far = "open" /\ said + n <= MaxDown
    /\ n > 0 => carried # <<>>
    /\ n = 0 => ~headed
    /\ headed' = TRUE /\ said' = said + n
    /\ inbound' = inbound \o (IF headed THEN <<>> ELSE <<0>>) \o Run(said, n)
    /\ UNCHANGED <<nodeVars, childVars, far, carried, stdin, stdinEnd, stdout>>

\* It ends; or its header is a refusal, which the child's read fails for, and it
\* neither reads nor says any more.
FarEnds ==
    /\ child = "relaying" /\ far = "open"
    /\ far' = "ended"
    /\ UNCHANGED <<nodeVars, childVars, headed, carried, said, pipes>>

\* A reset, or no sign of the server for too long, before its end or after it.
FarBreaks ==
    /\ child = "relaying" /\ far # "broken"
    /\ far' = "broken"
    /\ UNCHANGED <<nodeVars, childVars, headed, carried, said, pipes>>

-----------------------------------------------------------------------------

Node == \/ Spawn \/ StdinError \/ Exit \/ Read \/ Close \/ Kill
        \/ \E n \in 1 .. MaxUp : Write(n)

Child == Dial \/ CopyUp \/ CopyDown \/ Leave \/ Die

Next == Node \/ Child \/ (\E n \in 0 .. MaxDown : FarAnswers(n)) \/ FarEnds
        \/ FarBreaks

Spec == Init /\ [][Next]_vars

-----------------------------------------------------------------------------
(* Properties.                                                             *)

Upward == INSTANCE ByteStream WITH
    given <- offered, got <- carried, over <- Dead

Downward == INSTANCE ByteStream WITH
    given <- said, got <- relayed, over <- reading # "open"

\* A connector that came to its end by itself has passed on all its server said,
\* except for what a broken connection kept from it: main waits for both copies,
\* and the pipe outlives the process.
NativeEndsComplete ==
    /\ reading = "ended" /\ child = "done"
    /\ far = "broken" => inbound = <<>>
    => relayed = Run(0, said)

=============================================================================
