--------------------------- MODULE ProxyServerProofs ---------------------------
(***************************************************************************)
(* Proofs about ProxyServer, for any number of connections, clients' and   *)
(* upstreams' chunks: an upstream outlives its client in two cases only.   *)
(* what a tunnel takes in reaches the face in order and once; and a client *)
(* is told how its request went before any byte of the upstream.           *)
(* Every argument follows one connection: a face exists in the relay and   *)
(* the forward phases alone, the relay closes it with its client, and a    *)
(* client that is gone before has left during the dial.                    *)
(***************************************************************************)
EXTENDS ProxyServer, SequenceTheorems, TLAPS

\* The tables of the connections.
Tables ==
    /\ phase \in [Conns -> Phases] /\ left \in [Conns -> Phases]
    /\ form \in [Conns -> Forms \cup {"none"}]
    /\ client \in [Conns -> {"none", "open", "gone"}]
    /\ face \in [Conns -> {"none", "open", "closed"}]

Follows(c) ==
    /\ client[c] = "none" => phase[c] = "none"
    /\ face[c] = "open" => phase[c] \in {"relay", "forward"}
    /\ phase[c] = "forward" => form[c] = "absolute"
    /\ phase[c] = "dialing" /\ client[c] = "gone" => left[c] = "dialing"
    /\ face[c] = "open" /\ client[c] = "gone" => left[c] = "dialing" \/ form[c] = "absolute"

FollowInv == Tables /\ \A c \in Conns : Follows(c)

\* What an action does to the tables of the connection it is about.
Here(c, p, l, fo, cl, fa) ==
    /\ phase' = [phase EXCEPT ![c] = p] /\ left' = [left EXCEPT ![c] = l]
    /\ form' = [form EXCEPT ![c] = fo] /\ client' = [client EXCEPT ![c] = cl]
    /\ face' = [face EXCEPT ![c] = fa]

\* The invariant of a step is that of its one connection.
LEMMA OneConnection ==
    ASSUME FollowInv, NEW c \in Conns,
           NEW p \in Phases, NEW l \in Phases, NEW fo \in Forms \cup {"none"},
           NEW cl \in {"none", "open", "gone"}, NEW fa \in {"none", "open", "closed"},
           Here(c, p, l, fo, cl, fa),
           cl = "none" => p = "none",
           fa = "open" => p \in {"relay", "forward"},
           p = "forward" => fo = "absolute",
           p = "dialing" /\ cl = "gone" => l = "dialing",
           fa = "open" /\ cl = "gone" => l = "dialing" \/ fo = "absolute"
    PROVE  FollowInv'
<1>1. Tables'
    BY DEF FollowInv, Tables, Here
<1>2. ASSUME NEW d \in Conns PROVE Follows(d)'
  <2>1. CASE d = c
      BY <2>1 DEF FollowInv, Tables, Here, Follows
  <2>2. CASE d # c
    <3>1. /\ phase'[d] = phase[d] /\ left'[d] = left[d] /\ form'[d] = form[d]
          /\ client'[d] = client[d] /\ face'[d] = face[d]
        BY <2>2 DEF FollowInv, Tables, Here
    <3> QED
        BY <3>1, Zenon DEF FollowInv, Follows
  <2> QED
      BY <2>1, <2>2
<1> QED
    BY <1>1, <1>2 DEF FollowInv

LEMMA FollowStep == FollowInv /\ [Next]_vars => FollowInv'
<1> SUFFICES ASSUME FollowInv, [Next]_vars PROVE FollowInv'
    OBVIOUS
<1>1. CASE UNCHANGED <<phase, left, form, client, face>>
    BY <1>1, Zenon DEF FollowInv, Tables, Follows
<1>2. CASE Stop \/ UNCHANGED vars
    BY <1>1, <1>2, Zenon DEF Stop, vars
<1>3. ASSUME NEW c \in Conns,
             \/ Accept(c) \/ SocksGreeting(c) \/ SocksFragment(c)
             \/ SocksTurnedDown(c) \/ SocksDials(c)
             \/ HttpFragment(c) \/ HttpTurnedDown(c) \/ HttpThrows(c)
             \/ \E request \in {"connect", "absolute"} : HttpDials(c, request)
             \/ DialOk(c) \/ DialFails(c)
             \/ Flow(c) \/ ClientSends(c) \/ FaceSends(c) \/ FaceEnds(c) \/ ClientLeaves(c)
      PROVE FollowInv'
  <2>1. /\ phase[c] \in Phases /\ left[c] \in Phases /\ form[c] \in Forms \cup {"none"}
        /\ client[c] \in {"none", "open", "gone"} /\ face[c] \in {"none", "open", "closed"}
        /\ phase = [phase EXCEPT ![c] = phase[c]] /\ left = [left EXCEPT ![c] = left[c]]
        /\ form = [form EXCEPT ![c] = form[c]] /\ client = [client EXCEPT ![c] = client[c]]
        /\ face = [face EXCEPT ![c] = face[c]]
      BY DEF FollowInv, Tables
  <2>2. /\ client[c] = "none" => phase[c] = "none"
        /\ face[c] = "open" => phase[c] \in {"relay", "forward"}
        /\ phase[c] = "forward" => form[c] = "absolute"
        /\ phase[c] = "dialing" /\ client[c] = "gone" => left[c] = "dialing"
        /\ face[c] = "open" /\ client[c] = "gone" => left[c] = "dialing" \/ form[c] = "absolute"
      BY DEF FollowInv, Follows
  <2>3. CASE Flow(c) \/ ClientSends(c) \/ FaceSends(c)
      BY <1>1, <2>3, Zenon DEF Flow, ClientSends, FaceSends
  <2>4. CASE Accept(c)
    <3>1. client[c] = "none"
        BY <2>4 DEF Accept, Become
    <3>2. Here(c, "first", left[c], form[c], "open", face[c])
        BY <2>1, <2>4 DEF Accept, Become, Here
    <3> QED
        BY <2>1, <2>2, <3>1, <3>2, OneConnection DEF Phases
  <2>5. CASE SocksFragment(c)
    <3>1. phase[c] = "socks"
        BY <2>5 DEF SocksFragment, Throw, Become
    <3>2. Here(c, "destroyed", phase[c], form[c], "gone", face[c])
        BY <2>1, <2>5 DEF SocksFragment, Throw, Become, Here
    <3> QED
        BY <2>1, <2>2, <3>1, <3>2, OneConnection DEF Phases
  <2>6. CASE SocksTurnedDown(c)
    <3>1. phase[c] = "socks" /\ client[c] = "open"
        BY <2>6 DEF SocksTurnedDown, Become
    <3>2. Here(c, "answered", left[c], form[c], client[c], face[c])
        BY <2>1, <2>6 DEF SocksTurnedDown, Become, Here
    <3> QED
        BY <2>1, <2>2, <3>1, <3>2, OneConnection DEF Phases
  <2>7. CASE SocksDials(c)
    <3>1. phase[c] = "socks" /\ client[c] = "open"
        BY <2>7 DEF SocksDials, Become
    <3>2. Here(c, "dialing", left[c], form[c], client[c], face[c])
        BY <2>1, <2>7 DEF SocksDials, Become, Here
    <3> QED
        BY <2>1, <2>2, <3>1, <3>2, OneConnection DEF Phases
  <2>8. CASE HttpFragment(c)
    <3>1. phase[c] \in {"first", "head"} /\ client[c] = "open"
        BY <2>8 DEF HttpFragment, AtHead, Become
    <3>2. Here(c, "head", left[c], form[c], client[c], face[c])
        BY <2>1, <2>8 DEF HttpFragment, AtHead, Become, Here
    <3> QED
        BY <2>1, <2>2, <3>1, <3>2, OneConnection DEF Phases
  <2>9. CASE HttpTurnedDown(c)
    <3>1. phase[c] \in {"first", "head"} /\ client[c] = "open"
        BY <2>9 DEF HttpTurnedDown, AtHead, Become
    <3>2. Here(c, "answered", left[c], form[c], client[c], face[c])
        BY <2>1, <2>9 DEF HttpTurnedDown, AtHead, Become, Here
    <3> QED
        BY <2>1, <2>2, <3>1, <3>2, OneConnection DEF Phases
  <2>10. CASE HttpThrows(c)
    <3>1. phase[c] \in {"first", "head"}
        BY <2>10 DEF HttpThrows, AtHead, Throw, Become
    <3>2. Here(c, "destroyed", phase[c], form[c], "gone", face[c])
        BY <2>1, <2>10 DEF HttpThrows, AtHead, Throw, Become, Here
    <3> QED
        BY <2>1, <2>2, <3>1, <3>2, OneConnection DEF Phases
  <2>11. CASE DialFails(c)
    <3>1. phase[c] = "dialing"
        BY <2>11 DEF DialFails, Become
    <3>2. Here(c, "answered", left[c], form[c], client[c], face[c])
        BY <2>1, <2>11 DEF DialFails, Become, Here
    <3> QED
        BY <2>1, <2>2, <3>1, <3>2, OneConnection DEF Phases
  <2>12. CASE SocksGreeting(c)
    <3>1. phase[c] = "first" /\ client[c] = "open"
        BY <2>12 DEF SocksGreeting
    <3>2. \/ Here(c, "socks", left[c], "socks", client[c], face[c])
          \/ Here(c, "answered", left[c], "socks", client[c], face[c])
        BY <2>1, <2>12 DEF SocksGreeting, Become, Here
    <3> QED
        BY <2>1, <2>2, <3>1, <3>2, OneConnection DEF Phases, Forms
  <2>13. ASSUME NEW request \in {"connect", "absolute"}, HttpDials(c, request) PROVE FollowInv'
    <3>1. phase[c] \in {"first", "head"} /\ client[c] = "open"
        BY <2>13 DEF HttpDials, AtHead
    <3>2. Here(c, "dialing", left[c], request, client[c], face[c])
        BY <2>1, <2>13 DEF HttpDials, Become, Here
    <3> QED
        BY <2>1, <2>2, <3>1, <3>2, OneConnection DEF Phases, Forms
  <2>14. CASE DialOk(c)
    <3>1. phase[c] = "dialing"
        BY <2>14 DEF DialOk
    <3>2. CASE form[c] = "absolute"
      <4>1. Here(c, "forward", left[c], form[c], client[c], "open")
          BY <2>1, <2>14, <3>2 DEF DialOk, Become, Here
      <4> QED
          BY <2>1, <2>2, <3>1, <3>2, <4>1, OneConnection DEF Phases
    <3>3. CASE form[c] # "absolute"
      <4>1. Here(c, "relay", left[c], form[c], client[c], "open")
          BY <2>1, <2>14, <3>3 DEF DialOk, Become, Here
      <4> QED
          BY <2>1, <2>2, <3>1, <4>1, OneConnection DEF Phases
    <3> QED
        BY <3>2, <3>3
  <2>15. CASE FaceEnds(c)
    <3>1. face[c] = "open"
        BY <2>15 DEF FaceEnds
    <3>2. \/ Here(c, phase[c], left[c], form[c], client[c], "closed")
          \/ Here(c, "destroyed", phase[c], form[c], "gone", "closed")
        BY <2>1, <2>15 DEF FaceEnds, Throw, Become, Here
    <3> QED
        BY <2>1, <2>2, <3>1, <3>2, OneConnection DEF Phases
  <2>16. CASE ClientLeaves(c)
    <3>1. CASE phase[c] = "relay"
      <4>1. Here(c, phase[c], phase[c], form[c], "gone", "closed")
          BY <2>1, <2>16, <3>1 DEF ClientLeaves, Here
      <4> QED
          BY <2>1, <2>2, <3>1, <4>1, OneConnection
    <3>2. CASE phase[c] # "relay"
      <4>1. Here(c, phase[c], phase[c], form[c], "gone", face[c])
          BY <2>1, <2>16, <3>2 DEF ClientLeaves, Here
      <4> QED
          BY <2>1, <2>2, <3>2, <4>1, OneConnection
    <3> QED
        BY <3>1, <3>2
  <2> QED
      BY <1>3, <2>3, <2>4, <2>5, <2>6, <2>7, <2>8, <2>9, <2>10, <2>11, <2>12, <2>13, <2>14, <2>15, <2>16, Zenon
<1> QED
    BY <1>2, <1>3, Zenon DEF Next

\* An upstream outlives its client in two cases only: the client left before the
\* tunnel was up, or it sent an absolute-form request, whose client nobody
\* watches (#relay and #handleHttp).
THEOREM FacesFollow == Spec => []FacesFollowClients
<1>1. Init => FollowInv
  <2> SUFFICES ASSUME Init PROVE FollowInv
      OBVIOUS
  <2>1. Tables
      BY DEF Init, Tables, Phases
  <2>2. ASSUME NEW c \in Conns PROVE Follows(c)
      BY DEF Init, Follows
  <2> QED
      BY <2>1, <2>2 DEF FollowInv
<1>2. FollowInv => FacesFollowClients
    BY DEF FollowInv, Follows, FacesFollowClients
<1> QED
    BY <1>1, <1>2, FollowStep, PTL DEF Spec

-----------------------------------------------------------------------------
(* The types, and what a step about one connection leaves alone.           *)

\* What happens to one connection.
Step(c) ==
    \/ Accept(c) \/ SocksGreeting(c) \/ SocksFragment(c)
    \/ SocksTurnedDown(c) \/ SocksDials(c)
    \/ HttpFragment(c) \/ HttpTurnedDown(c) \/ HttpThrows(c)
    \/ \E request \in {"connect", "absolute"} : HttpDials(c, request)
    \/ DialOk(c) \/ DialFails(c)
    \/ Flow(c) \/ ClientSends(c) \/ FaceSends(c) \/ FaceEnds(c) \/ ClientLeaves(c)

\* The connection's row in every table.
Row(c) == <<phase[c], form[c], client[c], left[c], face[c], sent[c], rest[c],
            held[c], up[c], owed[c], log[c]>>

LEMMA NextIsStep == Next => Stop \/ \E c \in Conns : Step(c)
BY Zenon DEF Next, Step

\* What was said is appended to the log of that client, if it is still there.
LEMMA Said ==
    ASSUME TypeOK, NEW c \in Conns, NEW words \in Seq(Words), Say(c, words)
    PROVE  /\ log' \in [Conns -> Seq(Words)]
           /\ \A d \in Conns : d # c => log'[d] = log[d]
           /\ client[c] = "open" => log'[c] = log[c] \o words
           /\ client[c] # "open" => log'[c] = log[c]
<1>1. log \in [Conns -> Seq(Words)] /\ log[c] \o words \in Seq(Words)
    BY ConcatProperties DEF TypeOK
<1> QED
    BY <1>1 DEF Say

\* What a client's chunks do to what was written to its face.
LEMMA Emitted ==
    ASSUME TypeOK, NEW c \in Conns, NEW chunks \in Seq(Chunks), Emit(c, chunks)
    PROVE  /\ up' \in [Conns -> Seq(Chunks)]
           /\ \A d \in Conns : d # c => up'[d] = up[d]
           /\ phase[c] = "relay" /\ face[c] = "open" /\ client[c] = "open" =>
                 up'[c] = up[c] \o chunks
           /\ ~(phase[c] = "relay" /\ face[c] = "open" /\ client[c] = "open") => up'[c] = up[c]
<1>1. up \in [Conns -> Seq(Chunks)] /\ up[c] \o chunks \in Seq(Chunks)
    BY ConcatProperties DEF TypeOK
<1> QED
    BY <1>1 DEF Emit

\* The words an action says.
LEMMA Sayings ==
    /\ <<>> \in Seq(Words) /\ <<"method">> \in Seq(Words) /\ <<"method", "fin">> \in Seq(Words)
    /\ \A w \in Words : <<w>> \in Seq(Words) /\ <<w, "fin">> \in Seq(Words)
    /\ "ok" \in Words /\ "data" \in Words /\ "fin" \in Words
    /\ "refused" \in Words /\ "failed" \in Words /\ "bad" \in Words
BY DEF Words

\* Of the log, what an action of one connection leaves and where it appends.
LEMMA Speech ==
    ASSUME TypeOK, NEW c \in Conns, Step(c)
    PROVE  /\ log' \in [Conns -> Seq(Words)]
           /\ \A d \in Conns : d # c => log'[d] = log[d]
<1> USE TypeOK, Said, Sayings
<1>1. CASE \/ Accept(c) \/ SocksFragment(c) \/ SocksDials(c) \/ HttpFragment(c) \/ HttpThrows(c)
           \/ \E request \in {"connect", "absolute"} : HttpDials(c, request)
           \/ Flow(c) \/ ClientSends(c) \/ ClientLeaves(c)
  <2>1. UNCHANGED log
      BY <1>1, Zenon DEF Accept, SocksFragment, SocksDials, HttpFragment, HttpThrows, HttpDials,
                         Flow, ClientSends, ClientLeaves
  <2> QED
      BY <2>1 DEF TypeOK
<1>2. CASE SocksGreeting(c)
    BY <1>2, Zenon DEF SocksGreeting
<1>3. CASE SocksTurnedDown(c) \/ HttpTurnedDown(c)
    BY <1>3, Zenon DEF SocksTurnedDown, HttpTurnedDown
<1>4. CASE DialOk(c)
    BY <1>4, Zenon DEF DialOk
<1>5. CASE DialFails(c) \/ FaceSends(c)
    BY <1>5, Zenon DEF DialFails, FaceSends
<1>6. CASE FaceEnds(c)
  <2>1. Say(c, <<"fin">>) \/ UNCHANGED log
      BY <1>6, Zenon DEF FaceEnds
  <2>2. log \in [Conns -> Seq(Words)]
      BY Zenon DEF TypeOK
  <2> QED
      BY <2>1, <2>2, Zenon
<1> QED
    BY <1>1, <1>2, <1>3, <1>4, <1>5, <1>6, Zenon DEF Step

\* A step about one connection leaves the rows of the others alone.
LEMMA Others ==
    ASSUME TypeOK, NEW c \in Conns, Step(c), NEW d \in Conns, d # c
    PROVE  Row(d)' = Row(d)
<1>1. log'[d] = log[d]
    BY Speech, Zenon
<1>2. up'[d] = up[d]
  <2>1. CASE Flow(c)
    <3>1. Emit(c, held[c]) /\ held[c] \in Seq(Chunks)
        BY <2>1 DEF Flow, TypeOK
    <3> QED
        BY <3>1, Emitted, Zenon
  <2>2. CASE ClientSends(c)
    <3>1. Emit(c, <<sent[c] + 1>>) /\ <<sent[c] + 1>> \in Seq(Chunks)
        BY <2>2, BoundsAssumption DEF ClientSends, TypeOK, Chunks
    <3> QED
        BY <3>1, Emitted, Zenon
  <2> QED
      BY <2>1, <2>2, Zenon DEF Step, Accept, SocksGreeting, SocksFragment, SocksTurnedDown,
         SocksDials, HttpFragment, HttpTurnedDown, HttpThrows, HttpDials, DialOk, DialFails,
         FaceSends, FaceEnds, ClientLeaves
<1>3. /\ phase'[d] = phase[d] /\ left'[d] = left[d] /\ form'[d] = form[d]
      /\ client'[d] = client[d] /\ face'[d] = face[d]
    BY DEF TypeOK, Step, Become, Throw, Accept, SocksGreeting, SocksFragment, SocksTurnedDown,
       SocksDials, HttpFragment, HttpTurnedDown, HttpThrows, HttpDials, DialOk, DialFails,
       Flow, ClientSends, FaceSends, FaceEnds, ClientLeaves
<1>4. /\ sent'[d] = sent[d] /\ rest'[d] = rest[d] /\ held'[d] = held[d] /\ owed'[d] = owed[d]
    BY DEF TypeOK, Step, Accept, SocksGreeting, SocksFragment, SocksTurnedDown,
       SocksDials, HttpFragment, HttpTurnedDown, HttpThrows, HttpDials, DialOk, DialFails,
       Flow, ClientSends, FaceSends, FaceEnds, ClientLeaves
<1> QED
    BY <1>1, <1>2, <1>3, <1>4, Zenon DEF Row

\* Type correctness of the tables a step about one connection changes.
LEMMA TypeStep == TypeOK /\ [Next]_vars => TypeOK'
<1> SUFFICES ASSUME TypeOK, [Next]_vars PROVE TypeOK'
    OBVIOUS
<1>1. CASE Stop \/ UNCHANGED vars
    BY <1>1 DEF Stop, vars, TypeOK
<1>2. ASSUME NEW c \in Conns, Step(c) PROVE TypeOK'
  <2>1. log' \in [Conns -> Seq(Words)]
      BY <1>2, Speech, Zenon
  <2>2. /\ sent[c] \in 0 .. MaxChunks /\ 1 \in 0 .. MaxChunks /\ <<1>> \in Seq(Chunks) /\ {1} \subseteq Chunks
        /\ <<>> \in Seq(Chunks) /\ rest[c] \in Seq(Chunks) /\ held[c] \in Seq(Chunks)
        /\ sent[c] < MaxChunks =>
              /\ sent[c] + 1 \in 0 .. MaxChunks /\ <<sent[c] + 1>> \in Seq(Chunks)
              /\ owed[c] \cup {sent[c] + 1} \subseteq Chunks
      BY BoundsAssumption DEF TypeOK, Chunks
  <2>3. up' \in [Conns -> Seq(Chunks)]
    <3>1. CASE Flow(c)
      <4>1. Emit(c, held[c])
          BY <3>1 DEF Flow
      <4> QED
          BY <2>2, <4>1, Emitted, Zenon
    <3>2. CASE ClientSends(c)
      <4>1. Emit(c, <<sent[c] + 1>>) /\ sent[c] < MaxChunks
          BY <3>2 DEF ClientSends
      <4> QED
          BY <2>2, <4>1, Emitted, Zenon
    <3>3. CASE ~Flow(c) /\ ~ClientSends(c)
      <4>1. up' = up
          BY <1>2, <3>3, Zenon DEF Step, Accept, SocksGreeting, SocksFragment, SocksTurnedDown,
             SocksDials, HttpFragment, HttpTurnedDown, HttpThrows, HttpDials, DialOk, DialFails,
             FaceSends, FaceEnds, ClientLeaves
      <4> QED
          BY <4>1 DEF TypeOK
    <3> QED
        BY <3>1, <3>2, <3>3
  <2>4. /\ phase' \in [Conns -> Phases] /\ left' \in [Conns -> Phases]
        /\ form' \in [Conns -> Forms \cup {"none"}]
        /\ client' \in [Conns -> {"none", "open", "gone"}]
        /\ face' \in [Conns -> {"none", "open", "closed"}]
    <3>1. /\ phase \in [Conns -> Phases] /\ left \in [Conns -> Phases]
          /\ form \in [Conns -> Forms \cup {"none"}]
          /\ client \in [Conns -> {"none", "open", "gone"}]
          /\ face \in [Conns -> {"none", "open", "closed"}]
        BY DEF TypeOK
    <3>2. /\ phase' \in [Conns -> Phases]
        BY <1>2, <3>1 DEF Phases, Step, Become, Throw, Accept, SocksGreeting, SocksFragment,
           SocksTurnedDown, SocksDials, HttpFragment, HttpTurnedDown, HttpThrows, HttpDials, DialOk,
           DialFails, Flow, ClientSends, FaceSends, FaceEnds, ClientLeaves
    <3>3. client' \in [Conns -> {"none", "open", "gone"}] /\ left' \in [Conns -> Phases]
        BY <1>2, <3>1 DEF Step, Throw, Accept, SocksGreeting, SocksFragment,
           SocksTurnedDown, SocksDials, HttpFragment, HttpTurnedDown, HttpThrows, HttpDials, DialOk,
           DialFails, Flow, ClientSends, FaceSends, FaceEnds, ClientLeaves
    <3>4. form' \in [Conns -> Forms \cup {"none"}] /\ face' \in [Conns -> {"none", "open", "closed"}]
        BY <1>2, <3>1 DEF Forms, Step, Accept, SocksGreeting, SocksFragment,
           SocksTurnedDown, SocksDials, HttpFragment, HttpTurnedDown, HttpThrows, HttpDials, DialOk,
           DialFails, Flow, ClientSends, FaceSends, FaceEnds, ClientLeaves
    <3> QED
        BY <3>2, <3>3, <3>4
  <2>5. sent' \in [Conns -> 0 .. MaxChunks] /\ owed' \in [Conns -> SUBSET Chunks]
    <3>1. sent \in [Conns -> 0 .. MaxChunks] /\ owed \in [Conns -> SUBSET Chunks]
        BY DEF TypeOK
    <3>2. CASE SocksDials(c) \/ \E request \in {"connect", "absolute"} : HttpDials(c, request)
      <4>1. sent' = sent \/ sent' = [sent EXCEPT ![c] = 1]
          BY <3>2, Zenon DEF SocksDials, HttpDials
      <4>2. owed' = owed \/ owed' = [owed EXCEPT ![c] = {1}]
          BY <3>2, Zenon DEF SocksDials, HttpDials
      <4>3. sent' \in [Conns -> 0 .. MaxChunks]
          BY <2>2, <3>1, <4>1
      <4> QED
          BY <2>2, <3>1, <4>2, <4>3
    <3>3. CASE ClientSends(c)
        BY <2>2, <3>1, <3>3 DEF ClientSends
    <3>4. CASE UNCHANGED <<sent, owed>>
        BY <3>1, <3>4
    <3> QED
        BY <1>2, <3>2, <3>3, <3>4, Zenon DEF Step, Accept, SocksGreeting, SocksFragment,
           SocksTurnedDown, HttpFragment, HttpTurnedDown, HttpThrows, DialOk,
           DialFails, Flow, FaceSends, FaceEnds, ClientLeaves
  <2>6. rest' \in [Conns -> Seq(Chunks)] /\ held' \in [Conns -> Seq(Chunks)]
    <3>1. rest \in [Conns -> Seq(Chunks)] /\ held \in [Conns -> Seq(Chunks)]
        BY DEF TypeOK
    <3>2. CASE SocksDials(c) \/ \E request \in {"connect", "absolute"} : HttpDials(c, request)
        BY <2>2, <3>1, <3>2 DEF SocksDials, HttpDials
    <3>3. CASE DialOk(c) \/ Flow(c)
        BY <2>2, <3>1, <3>3 DEF DialOk, Flow
    <3>4. CASE UNCHANGED <<rest, held>>
        BY <3>1, <3>4
    <3> QED
        BY <1>2, <3>2, <3>3, <3>4, Zenon DEF Step, Accept, SocksGreeting, SocksFragment,
           SocksTurnedDown, HttpFragment, HttpTurnedDown, HttpThrows,
           DialFails, ClientSends, FaceSends, FaceEnds, ClientLeaves
  <2>7. listening' \in BOOLEAN
      BY <1>2 DEF TypeOK, Step, Accept, SocksGreeting, SocksFragment, SocksTurnedDown,
         SocksDials, HttpFragment, HttpTurnedDown, HttpThrows, HttpDials, DialOk, DialFails,
         Flow, ClientSends, FaceSends, FaceEnds, ClientLeaves
  <2> QED
      BY <2>1, <2>3, <2>4, <2>5, <2>6, <2>7 DEF TypeOK
<1> QED
    BY <1>1, <1>2, NextIsStep, Zenon

\* The tables keep their types.
THEOREM Typing == Spec => []TypeOK
<1>1. Init => TypeOK
    BY BoundsAssumption DEF Init, TypeOK, Phases, Words, Chunks
<1> QED
    BY <1>1, TypeStep, PTL DEF Spec

-----------------------------------------------------------------------------
(* What a tunnel carries.                                                  *)

Early == {"none", "first", "socks", "head"}

\* Nothing is written or kept before the request; during the dial the chunk
\* that came with it waits in rest; in the relay it is written, or unshifted,
\* with all that came since.
CarryHere(c) ==
    /\ \A n \in owed[c] : n <= sent[c]
    /\ phase[c] \in Early => /\ up[c] = <<>> /\ held[c] = <<>> /\ rest[c] = <<>>
                             /\ owed[c] = {} /\ sent[c] = 0
    /\ phase[c] = "dialing" => up[c] = <<>> /\ Carries(rest[c], owed[c])
    /\ phase[c] = "relay" /\ face[c] = "open" /\ client[c] = "open" =>
          Carries(up[c] \o held[c], owed[c])

CarryInv == \A c \in Conns : CarryHere(c)

LEMMA CarriesNothing == Carries(<<>>, {})
BY DEF Carries

LEMMA CarriesOne == Carries(<<1>>, {1})
BY DEF Carries

\* A chunk later than all so far goes behind them.
LEMMA CarriesNext ==
    ASSUME NEW seq \in Seq(Chunks), NEW chunks \in SUBSET Chunks, NEW m \in Nat,
           Carries(seq, chunks), m + 1 \in Chunks, \A n \in chunks : n <= m
    PROVE  Carries(seq \o <<m + 1>>, chunks \cup {m + 1})
<1> DEFINE one  == <<m + 1>>
           more == seq \o one
<1>1. one \in Seq(Chunks) /\ Len(one) = 1 /\ one[1] = m + 1
    OBVIOUS
<1> HIDE DEF one
<1>2. /\ more \in Seq(Chunks) /\ Len(more) = Len(seq) + Len(one)
      /\ \A i \in 1 .. Len(seq) + Len(one) :
            more[i] = IF i <= Len(seq) THEN seq[i] ELSE one[i - Len(seq)]
    BY <1>1, ConcatProperties, Zenon
<1> HIDE DEF more
<1>3. Len(seq) \in Nat /\ DOMAIN seq = 1 .. Len(seq)
    BY LenProperties
<1>4. DOMAIN more = 1 .. Len(seq) + 1
    BY <1>1, <1>2, LenProperties
<1>5. /\ \A i \in 1 .. Len(seq) : more[i] = seq[i]
      /\ more[Len(seq) + 1] = m + 1
    BY <1>1, <1>2, <1>3
<1>6. \A i \in 1 .. Len(seq) : seq[i] \in Chunks /\ seq[i] \in chunks
    BY <1>3, ElementOfSeq, Zenon DEF Carries
<1>7. \A i, j \in DOMAIN more : i < j => more[i] < more[j]
  <2> SUFFICES ASSUME NEW i \in DOMAIN more, NEW j \in DOMAIN more, i < j
               PROVE  more[i] < more[j]
      OBVIOUS
  <2>1. i \in 1 .. Len(seq)
      BY <1>3, <1>4
  <2>2. CASE j \in 1 .. Len(seq)
      BY <1>3, <1>5, <2>1, <2>2 DEF Carries
  <2>3. CASE j = Len(seq) + 1
    <3>1. seq[i] <= m /\ seq[i] \in Nat
        BY <1>6, <2>1 DEF Chunks
    <3> QED
        BY <1>5, <2>1, <2>3, <3>1
  <2> QED
      BY <1>3, <1>4, <2>2, <2>3
<1>8. ASSUME NEW n \in Chunks
      PROVE  n \in chunks \cup {m + 1} <=> \E i \in DOMAIN more : more[i] = n
  <2>1. n \in chunks <=> \E i \in 1 .. Len(seq) : seq[i] = n
      BY <1>3, Zenon DEF Carries
  <2>2. DOMAIN more = 1 .. Len(seq) \cup {Len(seq) + 1}
      BY <1>3, <1>4
  <2> QED
      BY <1>5, <2>1, <2>2, Zenon
<1> QED
    BY <1>7, <1>8, Zenon DEF Carries, more, one

\* A step that leaves what is carried alone, and brings no connection to the
\* phases in which something is carried.
LEMMA CarryQuiet ==
    ASSUME NEW c \in Conns, CarryHere(c),
           /\ sent'[c] = sent[c] /\ rest'[c] = rest[c] /\ held'[c] = held[c]
           /\ up'[c] = up[c] /\ owed'[c] = owed[c],
           phase'[c] \in Early => phase[c] \in Early,
           phase'[c] = "dialing" => phase[c] = "dialing",
           phase'[c] = "relay" /\ face'[c] = "open" /\ client'[c] = "open" =>
               phase[c] = "relay" /\ face[c] = "open" /\ client[c] = "open"
    PROVE  CarryHere(c)'
BY DEF CarryHere, Carries

LEMMA CarryStep == TypeOK /\ FollowInv /\ CarryInv /\ [Next]_vars => CarryInv'
<1> SUFFICES ASSUME TypeOK, FollowInv, CarryInv, [Next]_vars PROVE CarryInv'
    OBVIOUS
<1>1. CASE Stop \/ UNCHANGED vars
  <2>1. UNCHANGED <<phase, client, face, sent, rest, held, up, owed>>
      BY <1>1, Zenon DEF Stop, vars
  <2> QED
      BY <2>1 DEF CarryInv, CarryHere, Carries
<1>2. ASSUME NEW c \in Conns, Step(c) PROVE CarryInv'
  <2>1. ASSUME NEW d \in Conns, d # c PROVE CarryHere(d)'
    <3>1. /\ phase'[d] = phase[d] /\ client'[d] = client[d] /\ face'[d] = face[d]
          /\ sent'[d] = sent[d] /\ rest'[d] = rest[d] /\ held'[d] = held[d]
          /\ up'[d] = up[d] /\ owed'[d] = owed[d]
        BY <1>2, <2>1, Others DEF Row
    <3> QED
        BY <3>1, CarryQuiet, Zenon DEF CarryInv
  <2>2. CarryHere(c) /\ (client[c] = "none" => phase[c] = "none")
      BY Zenon DEF CarryInv, FollowInv, Follows
  <2>3. /\ phase \in [Conns -> Phases] /\ client \in [Conns -> {"none", "open", "gone"}]
        /\ face \in [Conns -> {"none", "open", "closed"}] /\ sent \in [Conns -> 0 .. MaxChunks]
        /\ rest \in [Conns -> Seq(Chunks)] /\ held \in [Conns -> Seq(Chunks)]
        /\ up \in [Conns -> Seq(Chunks)] /\ owed \in [Conns -> SUBSET Chunks]
      BY DEF TypeOK
  <2>4. CarryHere(c)'
    <3>1. CASE SocksDials(c)
      <4>1. phase[c] = "socks" /\ phase'[c] = "dialing" /\ up'[c] = up[c]
          BY <2>3, <3>1 DEF SocksDials, Become
      <4>2. up[c] = <<>> /\ rest[c] = <<>> /\ owed[c] = {} /\ sent[c] = 0
          BY <2>2, <4>1 DEF CarryHere, Early
      <4>3. \/ rest'[c] = <<>> /\ owed'[c] = {} /\ sent'[c] = 0
            \/ rest'[c] = <<1>> /\ owed'[c] = {1} /\ sent'[c] = 1
          BY <2>3, <3>1, <4>2 DEF SocksDials
      <4>4. Carries(rest'[c], owed'[c])
          BY <4>3, CarriesNothing, CarriesOne, Zenon
      <4>5. \A n \in owed'[c] : n <= sent'[c]
          BY <4>3
      <4> QED
          BY <4>1, <4>2, <4>4, <4>5 DEF CarryHere, Early, Carries
    <3>2. ASSUME NEW request \in {"connect", "absolute"}, HttpDials(c, request) PROVE CarryHere(c)'
      <4>1. phase[c] \in Early /\ phase'[c] = "dialing"
          BY <2>3, <3>2 DEF HttpDials, Become, AtHead, Early
      <4>2. up'[c] = <<>> /\ rest'[c] = <<>> /\ owed'[c] = {}
          BY <2>2, <3>2, <4>1 DEF CarryHere, HttpDials
      <4> QED
          BY <4>1, <4>2, CarriesNothing DEF CarryHere, Early, Carries
    <3>3. CASE DialOk(c)
      <4>1. phase[c] = "dialing" /\ phase'[c] \in {"relay", "forward"} /\ held'[c] = rest[c]
          BY <2>3, <3>3 DEF DialOk, Become
      <4>2. up'[c] = up[c] /\ owed'[c] = owed[c] /\ sent'[c] = sent[c]
          BY <3>3 DEF DialOk
      <4>3. up[c] = <<>> /\ Carries(rest[c], owed[c]) /\ \A n \in owed[c] : n <= sent[c]
          BY <2>2, <4>1 DEF CarryHere
      <4>4. up'[c] \o held'[c] = rest[c]
          BY <2>3, <4>1, <4>2, <4>3, ConcatEmptySeq
      <4>5. Carries(up[c] \o held[c], owed[c])'
          BY <4>2, <4>3, <4>4, Zenon DEF Carries
      <4> QED
          BY <4>1, <4>2, <4>3, <4>5, Zenon DEF CarryHere, Early
    <3>4. CASE Flow(c)
      <4>1. /\ held[c] # <<>> /\ held'[c] = <<>> /\ Emit(c, held[c]) /\ rest'[c] = rest[c]
            /\ phase'[c] = phase[c] /\ client'[c] = client[c] /\ face'[c] = face[c]
            /\ sent'[c] = sent[c] /\ owed'[c] = owed[c]
          BY <2>3, <3>4 DEF Flow, Settled
      <4>2. phase[c] \notin Early
          BY <2>2, <4>1 DEF CarryHere
      <4>3. up' \in [Conns -> Seq(Chunks)]
          BY <2>3, <4>1, Emitted, Zenon
      <4>4. CASE phase[c] = "relay" /\ face[c] = "open" /\ client[c] = "open"
        <5>1. up'[c] = up[c] \o held[c]
            BY <2>3, <4>1, <4>4, Emitted, Zenon
        <5>2. up'[c] \o held'[c] = up[c] \o held[c]
            BY <4>1, <4>3, <5>1, ConcatEmptySeq
        <5>3. Carries(up[c] \o held[c], owed[c])'
            BY <2>2, <4>1, <4>4, <5>2, Zenon DEF CarryHere, Carries
        <5>4. phase[c] # "dialing"
            BY <4>4
        <5> QED
            BY <2>2, <4>1, <4>2, <5>3, <5>4, Zenon DEF CarryHere
      <4>5. CASE ~(phase[c] = "relay" /\ face[c] = "open" /\ client[c] = "open")
        <5>1. up'[c] = up[c]
            BY <2>3, <4>1, <4>5, Emitted, Zenon
        <5>2. Carries(rest[c], owed[c]) => Carries(rest[c], owed[c])'
            BY <4>1, Zenon DEF Carries
        <5> QED
            BY <2>2, <4>1, <4>2, <4>5, <5>1, <5>2, Zenon DEF CarryHere
      <4> QED
          BY <4>4, <4>5
    <3>5. CASE ClientSends(c)
      <4>1. /\ phase[c] \in {"dialing", "relay", "forward"} /\ held[c] = <<>> /\ sent[c] < MaxChunks
            /\ sent'[c] = sent[c] + 1 /\ Emit(c, <<sent[c] + 1>>)
            /\ owed'[c] = IF phase[c] = "relay" THEN owed[c] \cup {sent[c] + 1} ELSE owed[c]
            /\ phase'[c] = phase[c] /\ client'[c] = client[c] /\ face'[c] = face[c]
            /\ rest'[c] = rest[c] /\ held'[c] = held[c]
          BY <2>3, <3>5 DEF ClientSends, Settled
      <4>2. sent[c] \in Nat /\ sent[c] + 1 \in Chunks /\ <<sent[c] + 1>> \in Seq(Chunks)
          BY <2>3, <4>1, BoundsAssumption DEF Chunks
      <4>3. \A n \in owed[c] : n \in Nat /\ n <= sent[c]
          BY <2>2, <2>3 DEF CarryHere, Chunks
      <4>4. \A n \in owed'[c] : n <= sent'[c]
          BY <4>1, <4>2, <4>3
      <4>5. phase[c] \notin Early
          BY <4>1 DEF Early
      <4>6. CASE phase[c] = "relay" /\ face[c] = "open" /\ client[c] = "open"
        <5>1. up' \in [Conns -> Seq(Chunks)] /\ up'[c] = up[c] \o <<sent[c] + 1>>
            BY <4>1, <4>2, <4>6, Emitted, Zenon
        <5>2. up'[c] \o held'[c] = up[c] \o <<sent[c] + 1>>
            BY <4>1, <5>1, ConcatEmptySeq
        <5>3. up[c] \o held[c] = up[c]
            BY <2>3, <4>1, ConcatEmptySeq
        <5>4. Carries(up[c], owed[c])
            BY <2>2, <4>6, <5>3 DEF CarryHere
        <5>5. up[c] \in Seq(Chunks) /\ owed[c] \in SUBSET Chunks
            BY <2>3
        <5>6. Carries(up[c] \o <<sent[c] + 1>>, owed[c] \cup {sent[c] + 1})
            BY <4>2, <4>3, <5>4, <5>5, CarriesNext
        <5>7. Carries(up[c] \o held[c], owed[c])'
            BY <4>1, <4>6, <5>2, <5>6, Zenon DEF Carries
        <5>8. phase[c] # "dialing"
            BY <4>6
        <5> QED
            BY <4>1, <4>4, <4>5, <5>7, <5>8, Zenon DEF CarryHere
      <4>7. CASE ~(phase[c] = "relay" /\ face[c] = "open" /\ client[c] = "open")
        <5>1. up'[c] = up[c]
            BY <4>1, <4>2, <4>7, Emitted, Zenon
        <5>2. phase[c] = "dialing" => owed'[c] = owed[c]
            BY <4>1
        <5>3. phase[c] = "dialing" => Carries(rest[c], owed[c])'
            BY <2>2, <4>1, <5>2, Zenon DEF CarryHere, Carries
        <5> QED
            BY <2>2, <4>1, <4>4, <4>5, <4>7, <5>1, <5>3, Zenon DEF CarryHere
      <4> QED
          BY <4>6, <4>7
    <3>6. CASE \/ Accept(c) \/ SocksGreeting(c) \/ SocksFragment(c) \/ SocksTurnedDown(c)
               \/ HttpFragment(c) \/ HttpTurnedDown(c) \/ HttpThrows(c)
               \/ DialFails(c) \/ FaceSends(c) \/ FaceEnds(c) \/ ClientLeaves(c)
      <4>1. UNCHANGED <<sent, rest, held, up, owed>>
          BY <3>6, Zenon DEF Accept, SocksGreeting, SocksFragment, SocksTurnedDown, HttpFragment,
             HttpTurnedDown, HttpThrows, DialFails, FaceSends, FaceEnds, ClientLeaves
      <4>2. /\ phase'[c] \in Early => phase[c] \in Early
            /\ phase'[c] = "dialing" => phase[c] = "dialing"
            /\ phase'[c] = "relay" /\ face'[c] = "open" /\ client'[c] = "open" =>
                  phase[c] = "relay" /\ face[c] = "open" /\ client[c] = "open"
          BY <2>2, <2>3, <3>6 DEF Early, Become, Throw, AtHead, Accept, SocksGreeting, SocksFragment,
             SocksTurnedDown, HttpFragment, HttpTurnedDown, HttpThrows, DialFails, FaceSends,
             FaceEnds, ClientLeaves
      <4> QED
          BY <2>2, <4>1, <4>2, CarryQuiet, Zenon
    <3> QED
        BY <1>2, <3>1, <3>2, <3>3, <3>4, <3>5, <3>6, Zenon DEF Step
  <2> QED
      BY <2>1, <2>4, Zenon DEF CarryInv
<1> QED
    BY <1>1, <1>2, NextIsStep, Zenon

\* What came with a SOCKS5 request and all a client sends over a tunnel is
\* written to the face in order, each chunk once: #handleSocks5's unshift and
\* #relay's listener.
THEOREM TunnelsCarry == Spec => []TunnelCarries
<1>1. Init => TypeOK /\ FollowInv /\ CarryInv
  <2> SUFFICES ASSUME Init PROVE TypeOK /\ FollowInv /\ CarryInv
      OBVIOUS
  <2>1. TypeOK /\ Tables
      BY BoundsAssumption DEF Init, TypeOK, Tables, Phases, Words, Chunks
  <2>2. ASSUME NEW c \in Conns PROVE Follows(c) /\ CarryHere(c)
      BY DEF Init, Follows, CarryHere, Early
  <2> QED
      BY <2>1, <2>2 DEF FollowInv, CarryInv
<1>2. CarryInv => TunnelCarries
    BY Zenon DEF CarryInv, CarryHere, TunnelCarries
<1> QED
    BY <1>1, <1>2, TypeStep, FollowStep, CarryStep, PTL DEF Spec

-----------------------------------------------------------------------------
(* What a client is told.                                                  *)

\* A log with one verdict at most, the upstream's bytes after an "ok" unless
\* the request is of the absolute form, and no refusal beside an upstream.
TellsWell(words, request, upstream) ==
    /\ \A i, j \in DOMAIN words : {words[i], words[j]} \subseteq Verdicts => i = j
    /\ \A i \in DOMAIN words :
          /\ words[i] = "data" /\ request # "absolute" => \E j \in 1 .. (i - 1) : words[j] = "ok"
          /\ words[i] \in Verdicts \ {"ok"} => upstream = "none"

\* Up to the dial's end a client is told of the method at most; in the relay
\* one that is still there has been told "ok".
ToldHere(c) ==
    /\ phase[c] \in Early \cup {"dialing"} =>
          face[c] = "none" /\ \A i \in DOMAIN log[c] : log[c][i] = "method"
    /\ phase[c] = "answered" => face[c] = "none"
    /\ phase[c] = "relay" =>
          face[c] # "none" /\ (client[c] = "open" => \E j \in DOMAIN log[c] : log[c][j] = "ok")
    /\ TellsWell(log[c], form[c], face[c])

ToldInv == \A c \in Conns : ToldHere(c)

\* One word more.
LEMMA OneMore ==
    ASSUME NEW words \in Seq(Words), NEW w \in Words
    PROVE  /\ words \o <<w>> \in Seq(Words)
           /\ Len(words) \in Nat /\ DOMAIN words = 1 .. Len(words)
           /\ DOMAIN (words \o <<w>>) = 1 .. Len(words) + 1
           /\ \A i \in 1 .. Len(words) : (words \o <<w>>)[i] = words[i]
           /\ (words \o <<w>>)[Len(words) + 1] = w
<1>1. words \o <<w>> = Append(words, w)
    BY AppendIsConcat
<1> QED
    BY <1>1, AppendProperties, LenProperties

LEMMA OneMoreTellsWell ==
    ASSUME NEW words \in Seq(Words), NEW w \in Words, NEW request, NEW upstream,
           TellsWell(words, request, upstream),
           w \in Verdicts => \A i \in DOMAIN words : words[i] \notin Verdicts,
           w \in Verdicts \ {"ok"} => upstream = "none",
           w = "data" /\ request # "absolute" => \E i \in DOMAIN words : words[i] = "ok"
    PROVE  TellsWell(words \o <<w>>, request, upstream)
<1> DEFINE more == words \o <<w>>
           n    == Len(words)
<1>1. /\ n \in Nat /\ DOMAIN words = 1 .. n /\ DOMAIN more = 1 .. n + 1
      /\ \A i \in 1 .. n : more[i] = words[i]
      /\ more[n + 1] = w
    BY OneMore
<1> HIDE DEF more, n
<1>2. \A i, j \in DOMAIN more : {more[i], more[j]} \subseteq Verdicts => i = j
  <2> SUFFICES ASSUME NEW i \in 1 .. n + 1, NEW j \in 1 .. n + 1,
                      more[i] \in Verdicts, more[j] \in Verdicts
               PROVE  i = j
      BY <1>1
  <2>1. CASE i \in 1 .. n /\ j \in 1 .. n
    <3>1. words[i] \in Verdicts /\ words[j] \in Verdicts
        BY <1>1, <2>1
    <3>2. {words[i], words[j]} \subseteq Verdicts
        BY <3>1
    <3> QED
        BY <1>1, <2>1, <3>2, Zenon DEF TellsWell
  <2>2. CASE i = n + 1 \/ j = n + 1
      BY <1>1, <2>2
  <2> QED
      BY <1>1, <2>1, <2>2
<1>3. ASSUME NEW i \in DOMAIN more
      PROVE  /\ more[i] = "data" /\ request # "absolute" => \E j \in 1 .. (i - 1) : more[j] = "ok"
             /\ more[i] \in Verdicts \ {"ok"} => upstream = "none"
  <2>1. CASE i \in 1 .. n
    <3>1. /\ words[i] = "data" /\ request # "absolute" => \E j \in 1 .. (i - 1) : words[j] = "ok"
          /\ words[i] \in Verdicts \ {"ok"} => upstream = "none"
        BY <1>1, <2>1, Zenon DEF TellsWell
    <3>2. \A j \in 1 .. (i - 1) : j \in 1 .. n
        BY <1>1, <2>1
    <3> QED
        BY <1>1, <2>1, <3>1, <3>2, Zenon
  <2>2. CASE i = n + 1
    <3>1. 1 .. (i - 1) = 1 .. n
        BY <1>1, <2>2
    <3> QED
        BY <1>1, <2>2, <3>1, Zenon
  <2> QED
      BY <1>1, <2>1, <2>2
<1> QED
    BY <1>2, <1>3, Zenon DEF TellsWell, more

LEMMA StillTold ==
    ASSUME NEW words \in Seq(Words), NEW w \in Words, NEW v \in Words,
           \E i \in DOMAIN words : words[i] = v
    PROVE  \E i \in DOMAIN (words \o <<w>>) : (words \o <<w>>)[i] = v
<1>1. PICK i \in 1 .. Len(words) : words[i] = v
    BY OneMore, Zenon
<1>2. i \in 1 .. Len(words) + 1
    BY <1>1, LenProperties
<1> QED
    BY <1>1, <1>2, OneMore, Zenon

LEMMA TwoWords ==
    ASSUME NEW v \in Words, NEW w \in Words
    PROVE  <<v>> \o <<w>> = <<v, w>>
<1> DEFINE one == <<v>>
           two == <<v, w>>
<1>1. /\ one \in Seq(Words) /\ Len(one) = 1 /\ one[1] = v
      /\ two \in Seq(Words) /\ Len(two) = 2 /\ two[1] = v /\ two[2] = w
    OBVIOUS
<1> HIDE DEF one, two
<1>2. /\ Append(one, w) \in Seq(Words) /\ Len(Append(one, w)) = 2
      /\ Append(one, w)[1] = v /\ Append(one, w)[2] = w
    BY <1>1, AppendProperties DEF one
<1>3. one \o <<w>> = Append(one, w)
    BY <1>1, AppendIsConcat
<1>4. \A i \in 1 .. Len(two) : Append(one, w)[i] = two[i]
    BY <1>1, <1>2
<1>5. Append(one, w) = two
    BY <1>1, <1>2, <1>4, SeqEqual, Zenon
<1> QED
    BY <1>3, <1>5 DEF one, two

\* A last word and the end of the stream.
LEMMA LastWords ==
    ASSUME NEW words \in Seq(Words), NEW w \in Words \ {"data"}, NEW request,
           \A i \in DOMAIN words : words[i] = "method"
    PROVE  /\ TellsWell(words, request, "none")
           /\ TellsWell(words \o <<w>>, request, "none")
           /\ TellsWell(words \o <<w, "fin">>, request, "none")
<1>1. "method" \notin Verdicts /\ "fin" \notin Verdicts /\ "fin" \in Words
    BY DEF Verdicts, Words
<1>2. TellsWell(words, request, "none")
    BY <1>1 DEF TellsWell
<1>3. \A i \in DOMAIN words : words[i] \notin Verdicts
    BY <1>1
<1>4. TellsWell(words \o <<w>>, request, "none")
    BY <1>2, <1>3, OneMoreTellsWell
<1>5. words \o <<w>> \in Seq(Words)
    BY OneMore
<1>6. TellsWell((words \o <<w>>) \o <<"fin">>, request, "none")
    BY <1>1, <1>4, <1>5, OneMoreTellsWell
<1>7. (words \o <<w>>) \o <<"fin">> = words \o <<w, "fin">>
  <2>1. <<w>> \in Seq(Words) /\ <<"fin">> \in Seq(Words)
      BY <1>1
  <2>2. (words \o <<w>>) \o <<"fin">> = words \o (<<w>> \o <<"fin">>)
      BY <2>1, ConcatAssociative
  <2>3. <<w>> \o <<"fin">> = <<w, "fin">>
      BY <1>1, TwoWords
  <2> QED
      BY <2>2, <2>3
<1> QED
    BY <1>2, <1>4, <1>6, <1>7

\* The promise is kept when the upstream closes, and when a client is no longer
\* told anything.
LEMMA SameWords ==
    ASSUME NEW words, NEW request, NEW upstream, NEW another,
           TellsWell(words, request, upstream), upstream = "none" => another = "none"
    PROVE  TellsWell(words, request, another)
BY Zenon DEF TellsWell

LEMMA ToldStep == TypeOK /\ FollowInv /\ ToldInv /\ [Next]_vars => ToldInv'
<1> SUFFICES ASSUME TypeOK, FollowInv, ToldInv, [Next]_vars PROVE ToldInv'
    OBVIOUS
<1>1. CASE Stop \/ UNCHANGED vars
  <2>1. UNCHANGED <<phase, form, client, face, log>>
      BY <1>1, Zenon DEF Stop, vars
  <2> QED
      BY <2>1 DEF ToldInv, ToldHere
<1>2. ASSUME NEW c \in Conns, Step(c) PROVE ToldInv'
  <2>1. ASSUME NEW d \in Conns, d # c PROVE ToldHere(d)'
    <3>1. /\ phase'[d] = phase[d] /\ form'[d] = form[d] /\ client'[d] = client[d]
          /\ face'[d] = face[d] /\ log'[d] = log[d]
        BY <1>2, <2>1, Others DEF Row
    <3> QED
        BY <3>1 DEF ToldInv, ToldHere
  <2>2. /\ ToldHere(c)
        /\ client[c] = "none" => phase[c] = "none"
        /\ face[c] = "open" => phase[c] \in {"relay", "forward"}
        /\ phase[c] = "forward" => form[c] = "absolute"
      BY Zenon DEF ToldInv, FollowInv, Follows
  <2>3. /\ phase \in [Conns -> Phases] /\ client \in [Conns -> {"none", "open", "gone"}]
        /\ form \in [Conns -> Forms \cup {"none"}]
        /\ face \in [Conns -> {"none", "open", "closed"}] /\ log[c] \in Seq(Words)
      BY DEF TypeOK
  <2>4. ToldHere(c)'
    <3>1. CASE SocksGreeting(c)
      <4>1. /\ phase[c] = "first" /\ client'[c] = client[c] /\ face'[c] = face[c]
            /\ phase'[c] \in {"socks", "answered"}
          BY <2>3, <3>1 DEF SocksGreeting, Become
      <4>2. face[c] = "none" /\ \A i \in DOMAIN log[c] : log[c][i] = "method"
          BY <2>2, <4>1 DEF ToldHere, Early
      <4>3. CASE Become(c, "socks") /\ Say(c, <<"method">>)
        <5>1. log'[c] \in {log[c], log[c] \o <<"method">>}
            BY <4>3, Said, Sayings, Zenon
        <5>2. TellsWell(log'[c], form'[c], "none")
            BY <2>3, <4>2, <5>1, LastWords DEF Words
        <5>3. \A i \in DOMAIN log'[c] : log'[c][i] = "method"
          <6>1. "method" \in Words
              BY DEF Words
          <6>2. \A i \in DOMAIN (log[c] \o <<"method">>) : (log[c] \o <<"method">>)[i] = "method"
              BY <2>3, <4>2, <6>1, OneMore
          <6> QED
              BY <4>2, <5>1, <6>2
        <5>4. phase'[c] = "socks"
            BY <2>3, <4>3 DEF Become
        <5> QED
            BY <4>1, <4>2, <5>2, <5>3, <5>4 DEF ToldHere, Early
      <4>4. CASE Become(c, "answered") /\ Say(c, <<"method", "fin">>)
        <5>1. log'[c] \in {log[c], log[c] \o <<"method", "fin">>}
            BY <4>4, Said, Sayings, Zenon
        <5>2. TellsWell(log'[c], form'[c], "none")
            BY <2>3, <4>2, <5>1, LastWords DEF Words
        <5>3. phase'[c] = "answered"
            BY <2>3, <4>4 DEF Become
        <5> QED
            BY <4>1, <4>2, <5>2, <5>3 DEF ToldHere, Early
      <4> QED
          BY <3>1, <4>3, <4>4, Zenon DEF SocksGreeting
    <3>2. CASE SocksTurnedDown(c) \/ HttpTurnedDown(c) \/ DialFails(c)
      <4>1. /\ phase[c] \in Early \cup {"dialing"} /\ phase'[c] = "answered"
            /\ client'[c] = client[c] /\ face'[c] = face[c] /\ form'[c] = form[c]
          BY <2>3, <3>2 DEF SocksTurnedDown, HttpTurnedDown, DialFails, AtHead, Become, Early
      <4>2. face[c] = "none" /\ \A i \in DOMAIN log[c] : log[c][i] = "method"
          BY <2>2, <4>1 DEF ToldHere
      <4>3. PICK word \in {"refused", "failed", "bad"} : Say(c, <<word, "fin">>)
          BY <3>2, Zenon DEF SocksTurnedDown, HttpTurnedDown, DialFails
      <4>4. word \in Words \ {"data"}
          BY DEF Words
      <4>5. log'[c] \in {log[c], log[c] \o <<word, "fin">>}
          BY <4>3, <4>4, Said, Sayings, Zenon
      <4>6. TellsWell(log'[c], form'[c], "none")
          BY <2>3, <4>2, <4>4, <4>5, LastWords
      <4> QED
          BY <4>1, <4>2, <4>6 DEF ToldHere, Early
    <3>3. CASE DialOk(c)
      <4>1. /\ phase[c] = "dialing" /\ face'[c] = "open" /\ form'[c] = form[c]
            /\ client'[c] = client[c]
          BY <2>3, <3>3 DEF DialOk
      <4>2. face[c] = "none" /\ \A i \in DOMAIN log[c] : log[c][i] = "method"
          BY <2>2, <4>1 DEF ToldHere
      <4>3. "method" \notin Verdicts /\ TellsWell(log[c], form[c], "open")
          BY <4>2 DEF TellsWell, Verdicts
      <4>4. CASE form[c] = "absolute"
        <5>1. phase'[c] = "forward" /\ Say(c, <<>>)
            BY <2>3, <3>3, <4>4 DEF DialOk, Become
        <5>2. log'[c] \in {log[c], log[c] \o <<>>}
            BY <5>1, Said, Sayings, Zenon
        <5>3. log'[c] = log[c]
            BY <2>3, <5>2, ConcatEmptySeq
        <5> QED
            BY <4>1, <4>3, <5>1, <5>3 DEF ToldHere, Early
      <4>5. CASE form[c] # "absolute"
        <5>1. phase'[c] = "relay" /\ Say(c, <<"ok">>)
            BY <2>3, <3>3, <4>5 DEF DialOk, Become
        <5>2. /\ client[c] = "open" => log'[c] = log[c] \o <<"ok">>
              /\ client[c] # "open" => log'[c] = log[c]
            BY <5>1, Said, Sayings, Zenon
        <5>3. "ok" \in Words /\ "ok" \notin Verdicts \ {"ok"} /\ "ok" # "data"
            BY DEF Words
        <5>4. \A i \in DOMAIN log[c] : log[c][i] \notin Verdicts
            BY <4>2, <4>3
        <5>5. TellsWell(log[c] \o <<"ok">>, form[c], "open")
            BY <2>3, <4>3, <5>3, <5>4, OneMoreTellsWell
        <5>6. TellsWell(log'[c], form'[c], "open")
            BY <2>3, <4>1, <4>3, <5>2, <5>5
        <5>7. client[c] = "open" => \E j \in DOMAIN log'[c] : log'[c][j] = "ok"
            BY <2>3, <5>2, <5>3, OneMore
        <5> QED
            BY <4>1, <5>1, <5>6, <5>7 DEF ToldHere, Early
      <4> QED
          BY <4>4, <4>5
    <3>4. CASE FaceSends(c)
      <4>1. /\ face[c] = "open" /\ client[c] = "open" /\ Say(c, <<"data">>) /\ phase'[c] = phase[c]
            /\ face'[c] = face[c] /\ form'[c] = form[c] /\ client'[c] = client[c]
          BY <3>4 DEF FaceSends
      <4>2. phase[c] \in {"relay", "forward"}
          BY <2>2, <4>1
      <4>3. log'[c] = log[c] \o <<"data">> /\ "data" \in Words /\ "data" \notin Verdicts
          BY <4>1, Said, Sayings DEF Verdicts
      <4>4. form[c] # "absolute" => \E j \in DOMAIN log[c] : log[c][j] = "ok"
          BY <2>2, <4>1, <4>2 DEF ToldHere
      <4>5. TellsWell(log[c], form[c], face[c])
          BY <2>2 DEF ToldHere
      <4>6. TellsWell(log'[c], form[c], face[c])
          BY <2>3, <4>3, <4>4, <4>5, OneMoreTellsWell
      <4>7. phase[c] = "relay" => \E j \in DOMAIN log'[c] : log'[c][j] = "ok"
        <5>1. phase[c] = "relay" => \E j \in DOMAIN log[c] : log[c][j] = "ok"
            BY <2>2, <4>1 DEF ToldHere
        <5> QED
          <6>1. "data" \in Words /\ "ok" \in Words
              BY DEF Words
          <6>2. phase[c] = "relay" =>
                    \E j \in DOMAIN (log[c] \o <<"data">>) : (log[c] \o <<"data">>)[j] = "ok"
              BY <2>3, <5>1, <6>1, StillTold
          <6> QED
              BY <4>3, <6>2, Zenon
      <4> QED
          BY <4>1, <4>2, <4>6, <4>7 DEF ToldHere, Early
    <3>5. CASE FaceEnds(c)
      <4>1. /\ face[c] = "open" /\ face'[c] = "closed" /\ form'[c] = form[c]
            /\ \/ Say(c, <<"fin">>) /\ phase'[c] = phase[c] /\ client'[c] = client[c]
               \/ phase'[c] = "destroyed" /\ log'[c] = log[c]
          BY <2>3, <3>5 DEF FaceEnds, Throw, Become
      <4>2. phase[c] \in {"relay", "forward"}
          BY <2>2, <4>1
      <4>3. TellsWell(log[c], form[c], "closed")
          BY <2>2, <4>1, SameWords DEF ToldHere
      <4>4. CASE Say(c, <<"fin">>) /\ phase'[c] = phase[c] /\ client'[c] = client[c]
        <5>1. log'[c] \in {log[c], log[c] \o <<"fin">>}
            BY <4>4, Said, Sayings, Zenon
        <5>2. "fin" \in Words /\ "fin" \notin Verdicts /\ "fin" # "data"
            BY DEF Words, Verdicts
        <5>3. TellsWell(log[c] \o <<"fin">>, form[c], "closed")
            BY <2>3, <4>3, <5>2, OneMoreTellsWell
        <5>4. TellsWell(log'[c], form'[c], face'[c])
            BY <4>1, <4>3, <5>1, <5>3
        <5>5. ASSUME phase'[c] = "relay", client'[c] = "open"
              PROVE  \E j \in DOMAIN log'[c] : log'[c][j] = "ok"
          <6>1. \E j \in DOMAIN log[c] : log[c][j] = "ok"
              BY <2>2, <4>4, <5>5 DEF ToldHere
          <6>2. \E j \in DOMAIN (log[c] \o <<"fin">>) : (log[c] \o <<"fin">>)[j] = "ok"
              BY <2>3, <6>1, StillTold, Sayings
          <6> QED
              BY <5>1, <6>1, <6>2, Zenon
        <5> QED
            BY <4>1, <4>2, <4>4, <5>4, <5>5 DEF ToldHere, Early
      <4>5. CASE phase'[c] = "destroyed" /\ log'[c] = log[c]
          BY <4>1, <4>3, <4>5 DEF ToldHere, Early
      <4> QED
          BY <4>1, <4>4, <4>5
    <3>6. CASE \/ Accept(c) \/ SocksFragment(c) \/ SocksDials(c) \/ HttpFragment(c) \/ HttpThrows(c)
               \/ \E request \in {"connect", "absolute"} : HttpDials(c, request)
               \/ Flow(c) \/ ClientSends(c) \/ ClientLeaves(c)
      <4>1. log' = log
          BY <3>6, Zenon DEF Accept, SocksFragment, SocksDials, HttpFragment, HttpThrows, HttpDials,
                             Flow, ClientSends, ClientLeaves
      <4>2. /\ phase'[c] \in Early \cup {"dialing"} => phase[c] \in Early \cup {"dialing"}
            /\ phase'[c] = "answered" => phase[c] = "answered"
            /\ phase'[c] = "relay" => phase[c] = "relay" /\ (client'[c] = "open" => client[c] = "open")
            /\ face'[c] \in {face[c], "closed"}
            /\ face'[c] = "closed" => face[c] = "closed" \/ phase[c] = "relay"
            /\ form'[c] # form[c] => phase[c] \in Early
            /\ face'[c] = "closed" /\ face[c] # "closed" => phase'[c] = "relay"
          BY <2>2, <2>3, <3>6 DEF Early, Become, Throw, AtHead, Accept, SocksFragment, SocksDials,
             HttpFragment, HttpThrows, HttpDials, Flow, ClientSends, ClientLeaves
      <4> QED
        <5>1. ASSUME phase[c] \in Early PROVE TellsWell(log[c], form'[c], "none") /\ face[c] = "none"
            BY <2>2, <2>3, <5>1, LastWords DEF ToldHere, Words
        <5>2. TellsWell(log[c], form[c], face'[c])
          <6>1. face[c] = "none" => face'[c] = "none"
              BY <2>2, <4>2 DEF ToldHere, Early
          <6> QED
              BY <2>2, <6>1, SameWords DEF ToldHere
        <5>3. phase[c] \in Early => face'[c] = "none"
            BY <4>2, <5>1 DEF Early
        <5>4. TellsWell(log'[c], form'[c], face'[c])
            BY <4>1, <4>2, <5>1, <5>2, <5>3
        <5>5. phase'[c] \in Early \cup {"dialing"} => face'[c] = "none"
            BY <2>2, <4>2 DEF ToldHere, Early
        <5>6. phase'[c] = "answered" => face'[c] = "none"
            BY <2>2, <4>2 DEF ToldHere, Early
        <5> QED
            BY <2>2, <4>1, <4>2, <5>4, <5>5, <5>6 DEF ToldHere
    <3> QED
        BY <1>2, <3>1, <3>2, <3>3, <3>4, <3>5, <3>6, Zenon DEF Step
  <2> QED
      BY <2>1, <2>4, Zenon DEF ToldInv
<1> QED
    BY <1>1, <1>2, NextIsStep, Zenon

\* The client is told once how its request went, before any byte of the
\* upstream, and is sent nothing of an upstream it was refused: #handleSocks5,
\* #handleConnect and #handleAbsolute around #connect.
THEOREM ToldFirst == Spec => []ToldBeforeData
<1>1. Init => TypeOK /\ FollowInv /\ ToldInv
  <2> SUFFICES ASSUME Init PROVE TypeOK /\ FollowInv /\ ToldInv
      OBVIOUS
  <2>1. TypeOK /\ Tables
      BY BoundsAssumption DEF Init, TypeOK, Tables, Phases, Words, Chunks
  <2>2. ASSUME NEW c \in Conns PROVE Follows(c)
      BY DEF Init, Follows
  <2>3. ASSUME NEW c \in Conns PROVE ToldHere(c)
      BY DEF Init, ToldHere, TellsWell, Early
  <2> QED
      BY <2>1, <2>2, <2>3 DEF FollowInv, ToldInv
<1>2. ToldInv => ToldBeforeData
    BY Zenon DEF ToldInv, ToldHere, TellsWell, ToldBeforeData
<1> QED
    BY <1>1, <1>2, TypeStep, FollowStep, ToldStep, PTL DEF Spec

=============================================================================
