---------------------------- MODULE ServerProofs ----------------------------
(***************************************************************************)
(* Theorems about Server: whatever texts the clients and the console type, *)
(* however the reads of a connection cut them, in any order of connecting, *)
(* leaving and being served.  What is said of the connections and of the   *)
(* session holds whatever handler a text runs as, as long as only the user *)
(* it runs for comes to own the session; which handler that may be is the  *)
(* last part.                                                              *)
(***************************************************************************)
EXTENDS Server, SequenceTheorems, FiniteSetTheorems, WellFoundedInduction, TLAPS

Typing == Lines \cup ConsoleLines

Parts == Nat \X {1, 2}

\* The two writes of an answer.
Reply(n) == << <<n, 1>>, <<n, 2>> >>

\* What is on its way, and what has come of it, are sequences.
Streams ==
  /\ up \in [Clients -> Seq(STRING)]
  /\ down \in [Clients -> Seq(Parts)]
  /\ typed \in [Users -> Seq(Typing)]
  /\ executed \in [Clients -> Seq(Seq(STRING))]
  /\ printed \in [Clients -> Seq(Seq(Parts))]

\* The session is that of the client being served or of one that is gone.
SessionServed ==
  \A owner \in {session.tx, session.db} \cap Clients : owner = served \/ owner \in closed

\* A client is one line ahead of the server at most,
OneLineAhead(c) ==
  \/ up[c] = <<>> /\ executed[c] = typed[c]
  \/ \E line \in Lines : typed[c] = Append(executed[c], line) /\ up[c] \in {<<>>, line}

\* all that a client which may type has typed has been executed and answered,
AllAnswered(c) ==
  /\ up[c] = <<>> /\ down[c] = <<>>
  /\ executed[c] = typed[c]
  /\ Len(printed[c]) = Len(executed[c])

\* and one that waits has nothing to read, or the answer to its last line.
LastAnswer(c) ==
  \/ down[c] = <<>> /\ Len(printed[c]) = Len(executed[c])
  \/ /\ up[c] = <<>> /\ executed[c] = typed[c]
     /\ Len(executed[c]) = Len(printed[c]) + 1
     /\ down[c] = Reply(Len(executed[c]))

Printed(c) == \A i \in DOMAIN printed[c] : printed[c][i] = Reply(i)

\* The conversation of a client whose reads, and the server's, end where
\* writes did.
Dialogue(c) ==
  /\ OneLineAhead(c)
  /\ Printed(c)
  /\ client[c] \in {"out", "ready"} => AllAnswered(c)
  /\ client[c] = "waiting" => LastAnswer(c)

InStep == \A c \in Clients : torn[c] = 0 => Dialogue(c)

ServerInv == TypeOK /\ Streams /\ SessionServed /\ InStep

(* The part of the type invariant about who is connected, *)
Connections ==
  /\ queue \in Seq(Clients) /\ IsInjective(queue)
  /\ served \in Clients \cup {Nobody}
  /\ served \notin ToSet(queue)
  /\ client \in [Clients -> {"out", "ready", "waiting", "gone"}]
  /\ closed \subseteq Clients /\ closed \cap (ToSet(queue) \cup {served}) = {}
  /\ { c \in Clients : client[c] # "out" } = (ToSet(queue) \cup {served} \cup closed) \ {Nobody}

(* the part about the numbers of the answers, *)
Numbered(c) ==
  \A i \in DOMAIN down[c] : down[c][i] \in (1..(Len(executed[c]) + 1)) \X {1, 2}

Numbers == \A c \in Clients : Numbered(c)

(* and the rest. *)
Settings ==
  /\ mode \in {"server", "console"}
  /\ alive \in BOOLEAN
  /\ session \in [tx : Users \cup {Nobody}, db : Users \cup {Nobody}]
  /\ torn \in [Clients -> 0..MaxTorn]

LEMMA TypeParts ==
  ASSUME Streams
  PROVE  TypeOK <=> Connections /\ Numbers /\ Settings
BY DEF Streams, Typing, TypeOK, Connections, Numbers, Numbered, Settings

---------------------------------------------------------------------------
(* What a statement may do to the session: the user it runs for comes to   *)
(* own it, nobody does, or it stays as it was.                             *)
Owned(who) ==
  /\ session' \in [tx : Users \cup {Nobody}, db : Users \cup {Nobody}]
  /\ session'.tx \in {session.tx, session.db, who, Nobody}
  /\ session'.db \in {session.tx, session.db, who, Nobody}

LEMMA RunsOwned ==
  ASSUME Settings, NEW who \in Users, NEW text, Runs(text, who)
  PROVE  Owned(who)
<1> DEFINE handler == Handler(text, Selected(session))
<1> HIDE DEF handler
<1>1. session' = SessionAfter(session, handler, who)
  BY DEF Runs, handler
<1>2. /\ session'.tx \in {session.tx, who, Nobody}
      /\ session'.db \in {session.db, who, Nobody}
  BY <1>1 DEF SessionAfter
<1>3. session' \in [tx : Users \cup {Nobody}, db : Users \cup {Nobody}]
  BY <1>1 DEF SessionAfter, Settings
<1>4. QED
  BY <1>2, <1>3 DEF Owned

(* One turn of the server's loop, with what it may do to the session and   *)
(* to the connection in place of the text.                                 *)
Turn(c, n) ==
  /\ up' = [up EXCEPT ![c] = SubSeq(@, n + 1, Len(@))]
  /\ ReadUpTo(c, up[c][n] = "nl")
  /\ executed' = IF torn'[c] > 0 THEN executed
                 ELSE [executed EXCEPT ![c] = Append(@, SubSeq(up[c], 1, n))]
  /\ \/ closed' = closed \cup {c} /\ served' = Nobody /\ UNCHANGED session
     \/ UNCHANGED <<closed, served>> /\ Owned(c)
  /\ \/ /\ client[c] # "gone" /\ UNCHANGED alive
        /\ down' = [down EXCEPT ![c] = @ \o Reply(Len(executed[c]) + 1)]
     \/ client[c] = "gone" /\ UNCHANGED down /\ alive' \in BOOLEAN
  /\ UNCHANGED <<mode, input, queue, client, typed, printed>>

LEMMA ServeTurn ==
  ASSUME Settings, Serve
  PROVE  \E c \in {served} \cap Clients : \E n \in 1..Len(up[c]) : Turn(c, n)
<1> DEFINE Served(c, n) ==
      /\ Reads(c, n)
      /\ ReadUpTo(c, up[c][n] = "nl")
      /\ executed' = IF torn'[c] > 0 THEN executed
                     ELSE [executed EXCEPT ![c] = Append(@, SubSeq(up[c], 1, n))]
      /\ \/ /\ closed' = closed \cup {c} /\ served' = Nobody
            /\ Sends(c, Reply(Len(executed[c]) + 1))
            /\ UNCHANGED session
         \/ /\ Runs(SubSeq(up[c], 1, n), c)
            /\ Sends(c, Reply(Len(executed[c]) + 1))
            /\ UNCHANGED <<closed, served>>
      /\ UNCHANGED <<mode, input, queue, client, typed, printed>>
<1>0. PICK c \in {served} \cap Clients : \E n \in 1..Len(up[c]) : Served(c, n)
  BY DEF Serve, Answer, Reply
<1>1. PICK n \in 1..Len(up[c]) : Served(c, n)
  BY <1>0
<1>2. \/ closed' = closed \cup {c} /\ served' = Nobody /\ UNCHANGED session
      \/ UNCHANGED <<closed, served>> /\ Owned(c)
  BY <1>1, RunsOwned DEF Users
<1>3. \/ /\ client[c] # "gone" /\ UNCHANGED alive
         /\ down' = [down EXCEPT ![c] = @ \o Reply(Len(executed[c]) + 1)]
      \/ client[c] = "gone" /\ UNCHANGED down /\ alive' \in BOOLEAN
  BY <1>1 DEF Sends
<1>4. Turn(c, n)
  BY <1>1, <1>2, <1>3 DEF Turn, Reads
<1>5. QED
  BY <1>4

---------------------------------------------------------------------------
(* The session stays with the client being served, or with one that the    *)
(* server has closed: Accept finds nobody served, so every owner closed.   *)
LEMMA SessionStep ==
  ASSUME ServerInv, [Next]_vars
  PROVE  SessionServed'
<1>0. Settings /\ Connections /\ SessionServed /\ Clients \cap {Nobody, Console} = {}
  BY TypeParts, UsersAssumption DEF ServerInv
<1>1. CASE UNCHANGED <<session, served, closed>>
  BY <1>0, <1>1 DEF SessionServed
<1>2. CASE \E c \in Clients : \/ Connect(c) \/ ClientReads(c) \/ Leave(c)
                              \/ \E line \in Lines : TypeLine(c, line)
  BY <1>1, <1>2 DEF Connect, ClientReads, Receive, ReceiveEnd, Leave, TypeLine
<1>3. CASE Accept
  BY <1>0, <1>3 DEF Accept, MayAccept, SessionServed
<1>4. CASE Serve
  <2>1. PICK c \in {served} \cap Clients : \E n \in 1..Len(up[c]) : Turn(c, n)
    BY <1>0, <1>4, ServeTurn
  <2>2. \/ closed' = closed \cup {c} /\ served' = Nobody /\ UNCHANGED session
        \/ UNCHANGED <<closed, served>> /\ Owned(c)
    BY <2>1 DEF Turn
  <2>3. QED
    BY <1>0, <2>1, <2>2 DEF Owned, SessionServed
<1>5. CASE HangUp
  BY <1>0, <1>5 DEF HangUp, SessionServed
<1>6. CASE \E line \in ConsoleLines : TypeAtConsole(line)
  BY <1>1, <1>6 DEF TypeAtConsole, connection
<1>7. CASE RunCommand
  <2>1. UNCHANGED <<served, closed>> /\ (UNCHANGED session \/ Owned(Console))
    BY <1>0, <1>7, RunsOwned DEF RunCommand, connection, Users
  <2>2. QED
    BY <1>0, <2>1 DEF Owned, SessionServed
<1>8. CASE UNCHANGED vars
  BY <1>1, <1>8 DEF vars, connection
<1>9. QED
  BY <1>2, <1>3, <1>4, <1>5, <1>6, <1>7, <1>8 DEF Next

(* Mode, life of the process, session and counts of torn reads.            *)
LEMMA SettingsStep ==
  ASSUME ServerInv, [Next]_vars
  PROVE  Settings'
<1>0. Settings /\ MaxTorn \in Nat
  BY TypeParts, BoundsAssumption DEF ServerInv
<1>1. ASSUME UNCHANGED <<mode, alive, session, torn>>
      PROVE  Settings'
  BY <1>0, <1>1 DEF Settings
<1>2. ASSUME NEW c \in Clients, NEW whole, ReadUpTo(c, whole)
      PROVE  torn' \in [Clients -> 0..MaxTorn]
  <2>1. CASE UNCHANGED torn
    BY <1>0, <2>1 DEF Settings
  <2>2. CASE torn[c] < MaxTorn /\ torn' = [torn EXCEPT ![c] = @ + 1]
    BY <1>0, <2>2 DEF Settings
  <2>3. QED
    BY <1>2, <2>1, <2>2 DEF ReadUpTo
<1>3. ASSUME NEW c \in Clients
      PROVE  /\ Connect(c) \/ ReceiveEnd(c) \/ Leave(c) => Settings'
             /\ Receive(c) => Settings'
             /\ \A line \in Lines : TypeLine(c, line) => Settings'
  <2>1. Connect(c) \/ ReceiveEnd(c) \/ Leave(c) => Settings'
    BY <1>1 DEF Connect, ReceiveEnd, Leave, ghosts
  <2>2. ASSUME Receive(c) PROVE Settings'
    <3>1. UNCHANGED <<mode, alive, session>> /\ \E whole : ReadUpTo(c, whole)
      BY <2>2 DEF Receive
    <3>2. QED
      BY <1>0, <1>2, <3>1 DEF Settings
  <2>3. \A line \in Lines : TypeLine(c, line) => Settings'
    BY <1>1 DEF TypeLine
  <2>4. QED
    BY <2>1, <2>2, <2>3
<1>4. CASE Serve
  <2>1. PICK c \in {served} \cap Clients : \E n \in 1..Len(up[c]) : Turn(c, n)
    BY <1>0, <1>4, ServeTurn
  <2>2. torn' \in [Clients -> 0..MaxTorn]
    BY <1>2, <2>1 DEF Turn
  <2>3. alive' \in BOOLEAN /\ mode' \in {"server", "console"}
    BY <1>0, <2>1 DEF Turn, Settings
  <2>4. session' \in [tx : Users \cup {Nobody}, db : Users \cup {Nobody}]
    BY <1>0, <2>1 DEF Turn, Settings, Owned
  <2>5. QED
    BY <2>2, <2>3, <2>4 DEF Settings
<1>5. CASE RunCommand
  <2>1. UNCHANGED <<mode, alive, torn>> /\ (UNCHANGED session \/ Owned(Console))
    BY <1>0, <1>5, RunsOwned DEF RunCommand, ghosts, Users
  <2>2. QED
    BY <1>0, <2>1 DEF Owned, Settings
<1>6. CASE \/ Accept \/ HangUp \/ (\E line \in ConsoleLines : TypeAtConsole(line))
           \/ UNCHANGED vars
  BY <1>1, <1>6 DEF Accept, HangUp, TypeAtConsole, vars, ghosts
<1>7. QED
  BY <1>3, <1>4, <1>5, <1>6 DEF Next, ClientReads

(* A connection is in one place: not tried, in the queue, served or        *)
(* closed; and once each in the queue.                                     *)
LEMMA ConnectionsStep ==
  ASSUME ServerInv, [Next]_vars
  PROVE  Connections'
<1>0. Settings /\ Connections /\ Clients \cap {Nobody, Console} = {}
  BY TypeParts, UsersAssumption DEF ServerInv
<1>1. ASSUME UNCHANGED <<queue, served, client, closed>>
      PROVE  Connections'
  BY <1>0, <1>1 DEF Connections
<1>2. ASSUME NEW c \in Clients, client[c] # "out",
             NEW how \in {"ready", "waiting", "gone"},
             client' = [client EXCEPT ![c] = how], UNCHANGED <<queue, served, closed>>
      PROVE  Connections'
  <2>1. client' \in [Clients -> {"out", "ready", "waiting", "gone"}]
    BY <1>0, <1>2 DEF Connections
  <2>2. \A d \in Clients : client'[d] # "out" <=> client[d] # "out"
    BY <1>0, <1>2 DEF Connections
  <2>3. { d \in Clients : client'[d] # "out" } = { d \in Clients : client[d] # "out" }
    BY <2>2
  <2>4. QED
    BY <1>0, <1>2, <2>1, <2>3 DEF Connections
<1>3. ASSUME NEW c \in Clients, Connect(c)
      PROVE  Connections'
  <2>1. /\ queue' = Append(queue, c) /\ UNCHANGED <<served, closed>>
        /\ client' = [client EXCEPT ![c] = "ready"] /\ client[c] = "out"
    BY <1>3 DEF Connect
  <2>2. c \notin ToSet(queue) /\ c # served /\ c \notin closed
    <3>1. c \notin (ToSet(queue) \cup {served} \cup closed) \ {Nobody}
      BY <1>0, <2>1 DEF Connections
    <3>2. QED
      BY <1>0, <3>1
  <2>3. queue' \in Seq(Clients) /\ ToSet(queue') = ToSet(queue) \cup {c}
    BY <1>0, <2>1 DEF Connections, ToSet
  <2>4. IsInjective(queue')
    BY <1>0, <2>1, <2>2 DEF Connections, ToSet, IsInjective
  <2>5. client' \in [Clients -> {"out", "ready", "waiting", "gone"}]
    BY <1>0, <2>1 DEF Connections
  <2>6. \A d \in Clients : client'[d] # "out" <=> client[d] # "out" \/ d = c
    BY <1>0, <2>1 DEF Connections
  <2>7. { d \in Clients : client'[d] # "out" } = { d \in Clients : client[d] # "out" } \cup {c}
    BY <2>6
  <2>8. { d \in Clients : client'[d] # "out" }
          = (ToSet(queue') \cup {served'} \cup closed') \ {Nobody}
    BY <1>0, <2>1, <2>3, <2>7 DEF Connections
  <2>9. QED
    BY <1>0, <2>1, <2>2, <2>3, <2>4, <2>5, <2>8 DEF Connections
<1>4. CASE \E c \in Clients : \/ ClientReads(c) \/ Leave(c)
                              \/ \E line \in Lines : TypeLine(c, line)
  BY <1>2, <1>4 DEF ClientReads, Receive, ReceiveEnd, Leave, TypeLine, MayType
<1>5. CASE Accept
  <2>1. /\ served = Nobody /\ queue # <<>> /\ served' = Head(queue) /\ queue' = Tail(queue)
        /\ UNCHANGED <<client, closed>>
    BY <1>5 DEF Accept, MayAccept
  <2>2. queue' \in Seq(Clients) /\ served' \in Clients
    BY <1>0, <2>1 DEF Connections
  <2>3. ToSet(queue) = ToSet(queue') \cup {served'}
    <3>1. Len(queue') = Len(queue) - 1 /\ \A i \in 1..Len(queue') : queue'[i] = queue[i + 1]
      BY <1>0, <2>1 DEF Connections
    <3>2. \A d : (\E i \in 1..Len(queue) : d = queue[i])
                <=> d = queue[1] \/ \E i \in 1..Len(queue') : d = queue'[i]
      <4>1. \A i \in 1..Len(queue) : i = 1 \/ (i - 1 \in 1..Len(queue') /\ queue'[i - 1] = queue[i])
        BY <1>0, <2>1, <3>1 DEF Connections
      <4>2. 1 \in 1..Len(queue) /\ \A i \in 1..Len(queue') : i + 1 \in 1..Len(queue)
        BY <1>0, <2>1, <3>1 DEF Connections
      <4>3. QED
        BY <3>1, <4>1, <4>2
    <3>3. /\ DOMAIN queue = 1..Len(queue) /\ DOMAIN queue' = 1..Len(queue')
          /\ served' = queue[1]
      BY <1>0, <2>1, <2>2 DEF Connections
    <3>4. ASSUME NEW q, DOMAIN q = 1..Len(q), NEW d
          PROVE  d \in ToSet(q) <=> \E i \in 1..Len(q) : d = q[i]
      BY <3>4 DEF ToSet
    <3>5. \A d : d \in ToSet(queue) <=> \E i \in 1..Len(queue) : d = queue[i]
      BY <3>3, <3>4
    <3>6. \A d : d \in ToSet(queue') <=> \E i \in 1..Len(queue') : d = queue'[i]
      BY <3>3, <3>4
    <3>7. \A d : d \in ToSet(queue) <=> d \in ToSet(queue') \cup {served'}
      BY <3>2, <3>3, <3>5, <3>6
    <3>8. QED
      BY <3>7
  <2>4. IsInjective(queue') /\ served' \notin ToSet(queue')
    BY <1>0, <2>1, <2>2 DEF Connections, ToSet, IsInjective
  <2>5. QED
    BY <1>0, <2>1, <2>2, <2>3, <2>4 DEF Connections
<1>6. ASSUME served \in Clients, served' = Nobody, closed' = closed \cup {served},
             UNCHANGED <<queue, client>>
      PROVE  Connections'
  BY <1>0, <1>6 DEF Connections, ToSet
<1>7. CASE Serve
  <2>1. PICK c \in {served} \cap Clients : \E n \in 1..Len(up[c]) : Turn(c, n)
    BY <1>0, <1>7, ServeTurn
  <2>2. /\ UNCHANGED <<queue, client>>
        /\ \/ closed' = closed \cup {served} /\ served' = Nobody
           \/ UNCHANGED <<closed, served>>
    BY <2>1 DEF Turn
  <2>3. QED
    BY <1>1, <1>6, <2>1, <2>2
<1>8. CASE HangUp
  BY <1>0, <1>6, <1>8 DEF HangUp, Connections
<1>9. CASE \/ RunCommand \/ (\E line \in ConsoleLines : TypeAtConsole(line)) \/ UNCHANGED vars
  BY <1>1, <1>9 DEF RunCommand, TypeAtConsole, vars, connection
<1>10. QED
  BY <1>3, <1>4, <1>5, <1>7, <1>8, <1>9 DEF Next

---------------------------------------------------------------------------
(* A read takes the front of a stream and leaves the rest.                 *)
LEMMA Cut ==
  ASSUME NEW S, NEW s \in Seq(S), NEW n \in 1..Len(s)
  PROVE  /\ SubSeq(s, 1, n) \in Seq(S) /\ Len(SubSeq(s, 1, n)) = n
         /\ SubSeq(s, n + 1, Len(s)) \in Seq(S)
         /\ Len(SubSeq(s, n + 1, Len(s))) = Len(s) - n
         /\ \A i \in 1..(Len(s) - n) : SubSeq(s, n + 1, Len(s))[i] = s[n + i]
<1>1. /\ SubSeq(s, 1, n) \in Seq(S)
      /\ Len(SubSeq(s, 1, n)) = IF 1 <= n THEN n - 1 + 1 ELSE 0
  BY SubSeqProperties
<1>2. \A i \in (n + 1)..Len(s) : s[i] \in S
  OBVIOUS
<1>3. /\ SubSeq(s, n + 1, Len(s)) \in Seq(S)
      /\ Len(SubSeq(s, n + 1, Len(s))) = IF n + 1 <= Len(s) THEN Len(s) - (n + 1) + 1 ELSE 0
      /\ \A i \in 1..(Len(s) - (n + 1) + 1) : SubSeq(s, n + 1, Len(s))[i] = s[(n + 1) + i - 1]
  BY <1>2, SubSeqProperties
<1>4. QED
  BY <1>1, <1>3

(* Every line is a text.                                                   *)
LEMMA LinesAreTexts == \A line \in Lines : line \in Seq(STRING) /\ line # <<>>
BY LinesAssumption

LEMMA ReplyTyped ==
  ASSUME NEW k \in Nat
  PROVE  /\ Reply(k) \in Seq(Parts) /\ Len(Reply(k)) = 2
         /\ Reply(k)[1] = <<k, 1>> /\ Reply(k)[2] = <<k, 2>>
BY DEF Reply, Parts

LEMMA StreamsStep ==
  ASSUME ServerInv, [Next]_vars
  PROVE  Streams'
<1>0. Streams /\ Settings /\ Clients \cap {Nobody, Console} = {}
  BY TypeParts, UsersAssumption DEF ServerInv
<1>1. ASSUME UNCHANGED <<up, down, typed, executed, printed>>
      PROVE  Streams'
  BY <1>0, <1>1 DEF Streams
<1>2. ASSUME NEW c \in Clients, NEW line \in Lines, TypeLine(c, line)
      PROVE  Streams'
  <2>1. Append(typed[c], line) \in Seq(Typing)
    BY <1>0 DEF Streams, Typing, Users
  <2>2. typed' \in [Users -> Seq(Typing)]
    BY <1>0, <1>2, <2>1 DEF Streams, TypeLine
  <2>3. up[c] \o line \in Seq(STRING)
    BY <1>0, LinesAreTexts, ConcatProperties DEF Streams
  <2>4. up' \in [Clients -> Seq(STRING)]
    BY <1>0, <1>2, <2>3 DEF Streams, TypeLine
  <2>5. QED
    BY <1>0, <1>2, <2>2, <2>4 DEF Streams, TypeLine
<1>3. ASSUME NEW c \in Clients, Receive(c)
      PROVE  Streams'
  <2>1. PICK n \in 1..Len(down[c]) :
          /\ down' = [down EXCEPT ![c] = SubSeq(@, n + 1, Len(@))]
          /\ \/ printed' = printed
             \/ printed' = [printed EXCEPT ![c] = Append(@, SubSeq(down[c], 1, n))]
    BY <1>3 DEF Receive
  <2>2. down[c] \in Seq(Parts) /\ printed[c] \in Seq(Seq(Parts))
    BY <1>0 DEF Streams
  <2>3. SubSeq(down[c], 1, n) \in Seq(Parts) /\ SubSeq(down[c], n + 1, Len(down[c])) \in Seq(Parts)
    BY <2>2, Cut
  <2>4. Append(printed[c], SubSeq(down[c], 1, n)) \in Seq(Seq(Parts))
    BY <2>2, <2>3, AppendProperties
  <2>5. down' \in [Clients -> Seq(Parts)] /\ printed' \in [Clients -> Seq(Seq(Parts))]
    BY <1>0, <2>1, <2>3, <2>4 DEF Streams
  <2>6. QED
    BY <1>0, <1>3, <2>5 DEF Streams, Receive
<1>4. CASE Serve
  <2>1. PICK c \in {served} \cap Clients : \E n \in 1..Len(up[c]) : Turn(c, n)
    BY <1>0, <1>4, ServeTurn
  <2>2. PICK n \in 1..Len(up[c]) : Turn(c, n)
    BY <2>1
  <2>3. up[c] \in Seq(STRING) /\ executed[c] \in Seq(Seq(STRING)) /\ down[c] \in Seq(Parts)
    BY <1>0 DEF Streams
  <2>4. SubSeq(up[c], 1, n) \in Seq(STRING) /\ SubSeq(up[c], n + 1, Len(up[c])) \in Seq(STRING)
    BY <2>3, Cut
  <2>5. Append(executed[c], SubSeq(up[c], 1, n)) \in Seq(Seq(STRING))
    BY <2>3, <2>4, AppendProperties
  <2>6. down[c] \o Reply(Len(executed[c]) + 1) \in Seq(Parts)
    <3>1. Reply(Len(executed[c]) + 1) \in Seq(Parts)
      BY <2>3, ReplyTyped
    <3>2. QED
      BY <2>3, <3>1, ConcatProperties
  <2>7. up' \in [Clients -> Seq(STRING)]
    BY <1>0, <2>2, <2>4 DEF Streams, Turn
  <2>8. executed' \in [Clients -> Seq(Seq(STRING))]
    BY <1>0, <2>2, <2>5 DEF Streams, Turn
  <2>9. down' \in [Clients -> Seq(Parts)]
    BY <1>0, <2>2, <2>6 DEF Streams, Turn
  <2>10. QED
    BY <1>0, <2>2, <2>7, <2>8, <2>9 DEF Streams, Turn
<1>5. ASSUME NEW line \in ConsoleLines, TypeAtConsole(line)
      PROVE  Streams'
  <2>1. Append(typed[Console], line) \in Seq(Typing)
    BY <1>0 DEF Streams, Typing, Users
  <2>2. typed' \in [Users -> Seq(Typing)]
    BY <1>0, <1>5, <2>1 DEF Streams, TypeAtConsole
  <2>3. QED
    BY <1>0, <1>5, <2>2 DEF Streams, TypeAtConsole, connection
<1>6. CASE \E c \in Clients : Connect(c) \/ ReceiveEnd(c) \/ Leave(c)
  BY <1>1, <1>6 DEF Connect, ReceiveEnd, Leave, ghosts
<1>7. CASE Accept \/ HangUp \/ RunCommand \/ UNCHANGED vars
  BY <1>1, <1>7 DEF Accept, HangUp, RunCommand, vars, connection, ghosts
<1>8. QED
  BY <1>2, <1>3, <1>4, <1>5, <1>6, <1>7 DEF Next, ClientReads

(* What is on its way down are answers to texts that have been executed,   *)
(* or to the one being executed.                                           *)
LEMMA NumbersStep ==
  ASSUME ServerInv, [Next]_vars
  PROVE  Numbers'
<1>0. Streams /\ Numbers /\ Settings
  BY TypeParts DEF ServerInv
<1>1. ASSUME UNCHANGED <<down, executed>>
      PROVE  Numbers'
  BY <1>0, <1>1 DEF Numbers, Numbered
<1>2. ASSUME NEW c \in Clients, Receive(c)
      PROVE  Numbers'
  <2>1. PICK n \in 1..Len(down[c]) : down' = [down EXCEPT ![c] = SubSeq(@, n + 1, Len(@))]
    BY <1>2 DEF Receive
  <2>2. down[c] \in Seq(Parts) /\ executed' = executed
    BY <1>0, <1>2 DEF Streams, Receive
  <2>3. /\ down'[c] \in Seq(Parts) /\ Len(down'[c]) = Len(down[c]) - n
        /\ \A i \in 1..(Len(down[c]) - n) : down'[c][i] = down[c][n + i]
    BY <1>0, <2>1, <2>2, Cut DEF Streams
  <2>4. \A i \in DOMAIN down'[c] : n + i \in DOMAIN down[c] /\ down'[c][i] = down[c][n + i]
    <3>1. /\ DOMAIN down'[c] = 1..Len(down'[c]) /\ DOMAIN down[c] = 1..Len(down[c])
          /\ Len(down[c]) \in Nat /\ n \in 1..Len(down[c])
      BY <2>2, <2>3
    <3>2. DOMAIN down'[c] = 1..(Len(down[c]) - n)
      BY <2>3, <3>1
    <3>3. \A i \in 1..(Len(down[c]) - n) : n + i \in 1..Len(down[c])
      BY <3>1
    <3>4. QED
      BY <2>3, <3>1, <3>2, <3>3
  <2>5. Numbered(c)'
    BY <1>0, <2>2, <2>4 DEF Numbers, Numbered
  <2>6. \A d \in Clients : d # c => Numbered(d)'
    BY <1>0, <2>1, <2>2 DEF Numbers, Numbered, Streams
  <2>7. QED
    BY <2>5, <2>6 DEF Numbers
<1>3. CASE Serve
  <2>1. PICK c \in {served} \cap Clients : \E n \in 1..Len(up[c]) : Turn(c, n)
    BY <1>0, <1>3, ServeTurn
  <2>2. PICK n \in 1..Len(up[c]) : Turn(c, n)
    BY <2>1
  <2> DEFINE number == Len(executed[c]) + 1
  <2>3. executed[c] \in Seq(Seq(STRING)) /\ down[c] \in Seq(Parts) /\ number \in Nat \ {0}
    BY <1>0 DEF Streams
  <2>4. /\ \A d \in Clients : d # c => executed'[d] = executed[d] /\ down'[d] = down[d]
        /\ Len(executed'[c]) >= Len(executed[c]) /\ Len(executed'[c]) \in Nat
    <3>1. executed'[c] = executed[c] \/ executed'[c] = Append(executed[c], SubSeq(up[c], 1, n))
      BY <1>0, <2>2 DEF Turn, Streams
    <3>2. SubSeq(up[c], 1, n) \in Seq(STRING)
      BY <1>0, Cut DEF Streams
    <3>3. Len(Append(executed[c], SubSeq(up[c], 1, n))) = number
      BY <2>3, <3>2, AppendProperties
    <3>4. \A d \in Clients : d # c => executed'[d] = executed[d] /\ down'[d] = down[d]
      BY <1>0, <2>2 DEF Turn, Streams
    <3>5. QED
      BY <2>3, <3>1, <3>3, <3>4
  <2>5. \A i \in DOMAIN down[c] : down[c][i] \in (1..(Len(executed'[c]) + 1)) \X {1, 2}
    BY <1>0, <2>3, <2>4 DEF Numbers, Numbered
  <2>6. Numbered(c)'
    <3>1. CASE UNCHANGED down
      BY <2>5, <3>1 DEF Numbered
    <3>2. CASE down' = [down EXCEPT ![c] = @ \o Reply(number)]
      <4>1. Reply(number) \in Seq(Parts) /\ Len(Reply(number)) = 2
            /\ Reply(number)[1] = <<number, 1>> /\ Reply(number)[2] = <<number, 2>>
        BY <2>3, ReplyTyped
      <4>2. /\ down'[c] \in Seq(Parts) /\ Len(down'[c]) = Len(down[c]) + 2
            /\ \A i \in 1..Len(down[c]) : down'[c][i] = down[c][i]
            /\ down'[c][Len(down[c]) + 1] = <<number, 1>>
            /\ down'[c][Len(down[c]) + 2] = <<number, 2>>
        <5> DEFINE s1 == down[c]  s2 == Reply(number)
        <5>1. down'[c] = s1 \o s2
          BY <1>0, <3>2 DEF Streams
        <5>2. s1 \in Seq(Parts) /\ s2 \in Seq(Parts) /\ Len(s2) = 2
              /\ s2[1] = <<number, 1>> /\ s2[2] = <<number, 2>>
          BY <2>3, <4>1
        <5> HIDE DEF s1, s2, number
        <5>3. /\ s1 \o s2 \in Seq(Parts) /\ Len(s1 \o s2) = Len(s1) + Len(s2)
              /\ \A i \in 1..(Len(s1) + Len(s2)) :
                    (s1 \o s2)[i] = IF i <= Len(s1) THEN s1[i] ELSE s2[i - Len(s1)]
          BY <5>2, ConcatProperties
        <5>4. /\ \A i \in 1..Len(s1) : (s1 \o s2)[i] = s1[i]
              /\ (s1 \o s2)[Len(s1) + 1] = s2[1] /\ (s1 \o s2)[Len(s1) + 2] = s2[2]
          BY <5>2, <5>3
        <5>5. QED
          BY <5>1, <5>2, <5>3, <5>4 DEF s1
      <4>3. <<number, 1>> \in (1..(Len(executed'[c]) + 1)) \X {1, 2}
            /\ <<number, 2>> \in (1..(Len(executed'[c]) + 1)) \X {1, 2}
        BY <2>3, <2>4
      <4>4. ASSUME NEW i \in DOMAIN down'[c]
            PROVE  down'[c][i] \in (1..(Len(executed'[c]) + 1)) \X {1, 2}
        <5>0. \/ i \in 1..Len(down[c])
              \/ i = Len(down[c]) + 1
              \/ i = Len(down[c]) + 2
          <6>1. DOMAIN down'[c] = 1..Len(down'[c]) /\ Len(down[c]) \in Nat
            BY <2>3, <4>2
          <6>2. Len(down'[c]) = Len(down[c]) + 2
            BY <4>2
          <6>3. QED
            BY <6>1, <6>2
        <5>1. CASE i \in 1..Len(down[c])
          BY <2>3, <2>5, <4>2, <5>1, SMTT(30)
        <5>2. CASE i = Len(down[c]) + 1
          BY <4>2, <4>3, <5>2
        <5>3. CASE i = Len(down[c]) + 2
          BY <4>2, <4>3, <5>3
        <5>4. QED
          BY <5>0, <5>1, <5>2, <5>3
      <4>5. QED
        BY <4>4 DEF Numbered
    <3>3. QED
      BY <2>2, <3>1, <3>2 DEF Turn
  <2>7. \A d \in Clients : d # c => Numbered(d)'
    BY <1>0, <2>4 DEF Numbers, Numbered
  <2>8. QED
    BY <2>6, <2>7 DEF Numbers
<1>4. CASE \E c \in Clients : \/ Connect(c) \/ ReceiveEnd(c) \/ Leave(c)
                              \/ \E line \in Lines : TypeLine(c, line)
  BY <1>1, <1>4 DEF Connect, ReceiveEnd, Leave, TypeLine, ghosts
<1>5. CASE \/ Accept \/ HangUp \/ RunCommand \/ UNCHANGED vars
           \/ \E line \in ConsoleLines : TypeAtConsole(line)
  BY <1>1, <1>5 DEF Accept, HangUp, RunCommand, TypeAtConsole, vars, connection, ghosts
<1>6. QED
  BY <1>2, <1>3, <1>4, <1>5 DEF Next, ClientReads

---------------------------------------------------------------------------
(* The conversation of one client.                                         *)
LEMMA SameDialogue ==
  ASSUME NEW c \in Clients, Dialogue(c),
         up'[c] = up[c], down'[c] = down[c], client'[c] = client[c],
         typed'[c] = typed[c], executed'[c] = executed[c], printed'[c] = printed[c]
  PROVE  Dialogue(c)'
BY DEF Dialogue, OneLineAhead, Printed, AllAnswered, LastAnswer

LEMMA GoneDialogue ==
  ASSUME NEW c \in Clients, Dialogue(c), client'[c] = "gone",
         up'[c] = up[c], typed'[c] = typed[c], executed'[c] = executed[c], printed'[c] = printed[c]
  PROVE  Dialogue(c)'
BY DEF Dialogue, OneLineAhead, Printed, AllAnswered, LastAnswer

(* Typing: the client has an answer to everything, so the new line is the  *)
(* only thing on its way.                                                  *)
LEMMA TypeDialogue ==
  ASSUME Streams, client \in [Clients -> {"out", "ready", "waiting", "gone"}],
         NEW c \in Clients, Dialogue(c), NEW line \in Lines, TypeLine(c, line)
  PROVE  Dialogue(c)'
<1>1. AllAnswered(c) /\ Printed(c)
  BY DEF TypeLine, MayType, Dialogue
<1>2. /\ typed'[c] = Append(executed[c], line) /\ executed'[c] = executed[c]
      /\ down'[c] = <<>> /\ printed'[c] = printed[c] /\ client'[c] = "waiting"
  BY <1>1 DEF TypeLine, AllAnswered, Streams, Users
<1>3. <<>> \o line = line
  BY LinesAreTexts, ConcatEmptySeq
<1>4. up'[c] \in {<<>>, line}
  BY <1>1, <1>3 DEF TypeLine, AllAnswered, Streams
<1>5. OneLineAhead(c)'
  BY <1>2, <1>4 DEF OneLineAhead
<1>6. LastAnswer(c)'
  BY <1>1, <1>2 DEF AllAnswered, LastAnswer
<1>7. Printed(c)'
  BY <1>1, <1>2 DEF Printed
<1>8. QED
  BY <1>2, <1>5, <1>6, <1>7 DEF Dialogue

(* Reading up to the end of a write: the whole answer to the last line.    *)
LEMMA ReceiveDialogue ==
  ASSUME Streams, client \in [Clients -> {"out", "ready", "waiting", "gone"}],
         torn \in [Clients -> Nat], NEW c \in Clients, torn[c] = 0,
         Dialogue(c), Receive(c), torn'[c] = 0
  PROVE  Dialogue(c)'
<1>1. PICK n \in 1..Len(down[c]) :
        /\ down' = [down EXCEPT ![c] = SubSeq(@, n + 1, Len(@))]
        /\ ReadUpTo(c, down[c][n][2] = 2)
        /\ printed' = IF torn'[c] > 0 THEN printed
                      ELSE [printed EXCEPT ![c] = Append(@, SubSeq(down[c], 1, n))]
  BY DEF Receive
<1> DEFINE k == Len(executed[c])
<1>2. /\ client[c] = "waiting" /\ client'[c] \in {"gone", "ready"}
      /\ up' = up /\ typed' = typed /\ executed' = executed
  BY DEF Receive
<1>3. /\ k \in Nat /\ printed[c] \in Seq(Seq(Parts)) /\ executed[c] \in Seq(Seq(STRING))
      /\ down[c] \in Seq(Parts) /\ Len(<<>>) = 0
  BY DEF Streams
<1>4. /\ up[c] = <<>> /\ executed[c] = typed[c]
      /\ k = Len(printed[c]) + 1 /\ down[c] = Reply(k)
  BY <1>1, <1>2, <1>3 DEF Dialogue, LastAnswer
<1> HIDE DEF k
<1>5. /\ Reply(k) \in Seq(Parts) /\ Len(Reply(k)) = 2
      /\ Reply(k)[1] = <<k, 1>> /\ Reply(k)[2] = <<k, 2>>
  BY <1>3, ReplyTyped
<1>6. n = 2
  <2>1. n = 1 \/ n = 2
    BY <1>1, <1>4, <1>5
  <2>2. down[c][1][2] = 1
    BY <1>4, <1>5
  <2>3. torn' = torn \/ torn' = [torn EXCEPT ![c] = @ + 1]
    BY <1>1 DEF ReadUpTo
  <2>4. torn' = torn
    BY <2>3
  <2>5. ASSUME ~(down[c][n][2] = 2) PROVE FALSE
    <3>1. torn' = [torn EXCEPT ![c] = @ + 1]
      BY <1>1, <2>5 DEF ReadUpTo
    <3>2. QED
      BY <3>1
  <2>6. QED
    BY <2>1, <2>2, <2>5
<1>7. SubSeq(Reply(k), 1, 2) = Reply(k) /\ SubSeq(Reply(k), 3, 2) = <<>>
  BY <1>5, SubSeqFull, SubSeqEmpty
<1>8. down'[c] = <<>> /\ printed'[c] = Append(printed[c], Reply(k))
  <2>1. ~(torn'[c] > 0)
    OBVIOUS
  <2>2. printed' = [printed EXCEPT ![c] = Append(@, SubSeq(down[c], 1, n))]
    BY <1>1, <2>1
  <2>3. down'[c] = SubSeq(Reply(k), n + 1, Len(Reply(k)))
    BY <1>1, <1>4 DEF Streams
  <2>4. printed'[c] = Append(printed[c], SubSeq(Reply(k), 1, n))
    BY <1>4, <2>2 DEF Streams
  <2>5. n + 1 = 3 /\ Len(Reply(k)) = 2
    BY <1>5, <1>6
  <2>6. QED
    BY <1>6, <1>7, <2>3, <2>4, <2>5
<1>9. /\ Len(printed'[c]) = k /\ DOMAIN printed'[c] = 1..k /\ printed'[c][k] = Reply(k)
      /\ \A i \in 1..Len(printed[c]) : printed'[c][i] = printed[c][i]
  BY <1>3, <1>4, <1>5, <1>8, AppendProperties
<1>10. Printed(c)'
  <2>1. \A i \in 1..Len(printed[c]) : printed[c][i] = Reply(i)
    BY <1>3 DEF Dialogue, Printed
  <2>2. \A i \in DOMAIN printed'[c] : i \in 1..Len(printed[c]) \/ i = k
    BY <1>3, <1>4, <1>9
  <2>3. QED
    BY <1>9, <2>1, <2>2 DEF Printed
<1>11. AllAnswered(c)'
  BY <1>2, <1>4, <1>8, <1>9 DEF AllAnswered, k
<1>12. OneLineAhead(c)'
  BY <1>2, <1>4 DEF OneLineAhead
<1>13. QED
  BY <1>2, <1>10, <1>11, <1>12 DEF Dialogue

(* Serving up to the end of a line: the one line that is on its way.       *)
LEMMA ServeDialogue ==
  ASSUME Streams, client \in [Clients -> {"out", "ready", "waiting", "gone"}],
         torn \in [Clients -> Nat], NEW c \in Clients, torn[c] = 0,
         client[c] # "out", NEW n \in 1..Len(up[c]),
         Dialogue(c), Turn(c, n), torn'[c] = 0
  PROVE  Dialogue(c)'
<1>1. /\ up[c] \in Seq(STRING) /\ executed[c] \in Seq(Seq(STRING))
      /\ up[c] # <<>> /\ Len(<<>>) = 0
  BY DEF Streams
<1>2. up[c][n] = "nl"
  <2>1. ASSUME ~(up[c][n] = "nl") PROVE FALSE
    <3>1. torn' = [torn EXCEPT ![c] = @ + 1]
      BY <2>1 DEF Turn, ReadUpTo
    <3>2. QED
      BY <3>1
  <2>2. QED
    BY <2>1
<1>3. PICK line \in Lines : typed[c] = Append(executed[c], line) /\ up[c] = line
  BY <1>1 DEF Dialogue, OneLineAhead
<1>4. n = Len(up[c])
  BY <1>1, <1>2, <1>3, LinesAssumption
<1>5. SubSeq(up[c], 1, n) = line /\ SubSeq(up[c], n + 1, Len(up[c])) = <<>>
  BY <1>1, <1>3, <1>4, SubSeqFull, SubSeqEmpty
<1>6. /\ up'[c] = <<>> /\ typed'[c] = typed[c] /\ printed'[c] = printed[c]
      /\ client'[c] = client[c] /\ executed'[c] = typed[c]
  BY <1>3, <1>5 DEF Turn, Streams
<1>7. OneLineAhead(c)'
  BY <1>6 DEF OneLineAhead
<1>8. Printed(c)'
  BY <1>6 DEF Dialogue, Printed
<1>9. client[c] \notin {"out", "ready"}
  BY <1>1 DEF Dialogue, AllAnswered
<1>10. ASSUME client[c] = "waiting" PROVE LastAnswer(c)'
  <2>1. down[c] = <<>> /\ Len(printed[c]) = Len(executed[c])
    BY <1>1, <1>10 DEF Dialogue, LastAnswer
  <2>2. Len(executed'[c]) = Len(executed[c]) + 1
    BY <1>1, <1>3, <1>6, LinesAreTexts, AppendProperties
  <2>3. down'[c] = <<>> \o Reply(Len(executed[c]) + 1)
    BY <1>10, <2>1 DEF Turn, Streams
  <2>4. down'[c] = Reply(Len(executed[c]) + 1)
    BY <1>1, <2>3, ReplyTyped, ConcatEmptySeq
  <2>5. QED
    BY <1>6, <2>1, <2>2, <2>4 DEF LastAnswer
<1>11. QED
  BY <1>6, <1>7, <1>8, <1>9, <1>10 DEF Dialogue

LEMMA InStepStep ==
  ASSUME ServerInv, [Next]_vars
  PROVE  InStep'
<1> SUFFICES ASSUME NEW d \in Clients, torn'[d] = 0
             PROVE  Dialogue(d)'
  BY DEF InStep
<1>0. /\ Streams /\ Settings /\ Connections /\ InStep /\ Clients \cap {Nobody, Console} = {}
      /\ client \in [Clients -> {"out", "ready", "waiting", "gone"}]
      /\ torn \in [Clients -> Nat]
  BY TypeParts, UsersAssumption, BoundsAssumption DEF ServerInv, Connections, Settings
<1>1. ASSUME NEW c \in Clients, NEW whole, ReadUpTo(c, whole)
      PROVE  torn[d] = 0
  BY <1>0, <1>1 DEF ReadUpTo
<1>2. ASSUME torn' = torn PROVE Dialogue(d)
  BY <1>0, <1>2 DEF InStep
<1>3. ASSUME UNCHANGED <<up, down, client, typed, executed, printed, torn>>
      PROVE  Dialogue(d)'
  BY <1>2, <1>3, SameDialogue
<1>4. ASSUME NEW c \in Clients, Connect(c)
      PROVE  Dialogue(d)'
  <2>1. Dialogue(d) /\ UNCHANGED <<up, down, typed, executed, printed>>
    BY <1>2, <1>4 DEF Connect, ghosts
  <2>2. CASE d = c
    <3>1. client[d] = "out" /\ client'[d] = "ready"
      BY <1>0, <1>4, <2>2 DEF Connect
    <3>2. QED
      BY <2>1, <3>1 DEF Dialogue, OneLineAhead, Printed, AllAnswered, LastAnswer
  <2>3. CASE d # c
    BY <1>0, <1>4, <2>1, <2>3, SameDialogue DEF Connect
  <2>4. QED
    BY <2>2, <2>3
<1>5. ASSUME NEW c \in Clients, ReceiveEnd(c) \/ Leave(c)
      PROVE  Dialogue(d)'
  <2>1. /\ Dialogue(d) /\ UNCHANGED <<up, down, typed, executed, printed>>
        /\ client' = [client EXCEPT ![c] = "gone"]
    BY <1>2, <1>5 DEF ReceiveEnd, Leave, ghosts
  <2>2. client'[d] = "gone" \/ client'[d] = client[d]
    BY <1>0, <2>1
  <2>3. QED
    BY <2>1, <2>2, SameDialogue, GoneDialogue
<1>6. ASSUME NEW c \in Clients, NEW line \in Lines, TypeLine(c, line)
      PROVE  Dialogue(d)'
  <2>1. Dialogue(d)
    BY <1>2, <1>6 DEF TypeLine
  <2>2. CASE d = c
    BY <1>0, <1>6, <2>1, <2>2, TypeDialogue
  <2>3. CASE d # c
    <3>1. /\ up'[d] = up[d] /\ down'[d] = down[d] /\ client'[d] = client[d]
          /\ typed'[d] = typed[d] /\ executed'[d] = executed[d] /\ printed'[d] = printed[d]
      BY <1>0, <1>6, <2>3 DEF TypeLine, Streams, Users
    <3>2. QED
      BY <2>1, <3>1, SameDialogue
  <2>4. QED
    BY <2>2, <2>3
<1>7. ASSUME NEW c \in Clients, Receive(c)
      PROVE  Dialogue(d)'
  <2>1. torn[d] = 0 /\ Dialogue(d)
    BY <1>0, <1>1, <1>7 DEF Receive, InStep
  <2>2. CASE d = c
    BY <1>0, <1>7, <2>1, <2>2, ReceiveDialogue
  <2>3. CASE d # c
    <3>1. /\ up'[d] = up[d] /\ down'[d] = down[d] /\ client'[d] = client[d]
          /\ typed'[d] = typed[d] /\ executed'[d] = executed[d] /\ printed'[d] = printed[d]
      BY <1>0, <1>7, <2>3 DEF Receive, Streams
    <3>2. QED
      BY <2>1, <3>1, SameDialogue
  <2>4. QED
    BY <2>2, <2>3
<1>8. CASE Serve
  <2>1. PICK c \in {served} \cap Clients : \E n \in 1..Len(up[c]) : Turn(c, n)
    BY <1>0, <1>8, ServeTurn
  <2>2. PICK n \in 1..Len(up[c]) : Turn(c, n)
    BY <2>1
  <2>3. torn[d] = 0 /\ Dialogue(d)
    BY <1>0, <1>1, <2>2 DEF Turn, InStep
  <2>4. CASE d = c
    <3>1. client[c] # "out"
      <4>1. c \in (ToSet(queue) \cup {served} \cup closed) \ {Nobody}
        BY <1>0
      <4>2. c \in { e \in Clients : client[e] # "out" }
        BY <1>0, <4>1 DEF Connections
      <4>3. QED
        BY <4>2
    <3>2. QED
      BY <1>0, <2>2, <2>3, <2>4, <3>1, ServeDialogue
  <2>5. CASE d # c
    <3>1. /\ up'[d] = up[d] /\ down'[d] = down[d] /\ client'[d] = client[d]
          /\ typed'[d] = typed[d] /\ executed'[d] = executed[d] /\ printed'[d] = printed[d]
      BY <1>0, <2>2, <2>5 DEF Turn, Streams
    <3>2. QED
      BY <2>3, <3>1, SameDialogue
  <2>6. QED
    BY <2>4, <2>5
<1>9. ASSUME NEW line \in ConsoleLines, TypeAtConsole(line)
      PROVE  Dialogue(d)'
  <2>1. Dialogue(d) /\ typed'[d] = typed[d]
        /\ UNCHANGED <<up, down, client, executed, printed>>
    BY <1>0, <1>2, <1>9 DEF TypeAtConsole, connection, Streams, Users
  <2>2. QED
    BY <2>1, SameDialogue
<1>10. CASE Accept \/ HangUp \/ RunCommand \/ UNCHANGED vars
  BY <1>3, <1>10 DEF Accept, HangUp, RunCommand, vars, connection, ghosts
<1>11. QED
  BY <1>4, <1>5, <1>6, <1>7, <1>8, <1>9, <1>10 DEF Next, ClientReads

---------------------------------------------------------------------------
LEMMA ServerStart ==
  ASSUME Init
  PROVE  ServerInv
<1>1. Streams
  BY DEF Init, Streams
<1>2. Connections
  BY UsersAssumption DEF Init, Connections, ToSet, IsInjective
<1>3. Numbers
  BY DEF Init, Numbers, Numbered
<1>4. Settings
  BY BoundsAssumption DEF Init, Settings
<1>5. SessionServed
  BY UsersAssumption DEF Init, SessionServed
<1>6. InStep
  BY DEF Init, InStep, Dialogue, OneLineAhead, Printed, AllAnswered, Users
<1>7. QED
  BY <1>1, <1>2, <1>3, <1>4, <1>5, <1>6, TypeParts DEF ServerInv

LEMMA ServerStep ==
  ASSUME ServerInv, [Next]_vars
  PROVE  ServerInv'
<1>1. Streams' /\ Connections' /\ Numbers' /\ Settings' /\ SessionServed' /\ InStep'
  BY StreamsStep, ConnectionsStep, NumbersStep, SettingsStep, SessionStep, InStepStep
<1>2. (Streams => (TypeOK <=> Connections /\ Numbers /\ Settings))'
  BY TypeParts, PTL
<1>3. QED
  BY <1>1, <1>2 DEF ServerInv

(* Every reachable state of server, clients and console satisfies the      *)
(* inductive invariant.                                                    *)
THEOREM Invariant == Spec => []ServerInv
BY ServerStart, ServerStep, PTL DEF Spec

(* Connections are in one place each, and what is on its way down are      *)
(* answers to texts that were executed or are being executed.              *)
THEOREM TypeCorrect == Spec => []TypeOK
<1>1. ServerInv => TypeOK
  BY DEF ServerInv
<1>2. QED
  BY <1>1, Invariant, PTL

(* For any number of clients: no client's statement runs in the            *)
(* transaction or the database of another one that is connected.           *)
THEOREM OneUser == Spec => []SessionHasOneUser
<1>1. ServerInv => SessionHasOneUser
  BY DEF ServerInv, SessionServed, SessionHasOneUser
<1>2. QED
  BY <1>1, Invariant, PTL

(* For any lines, each with its one end: unless a read ends inside a       *)
(* write, the server executes what was typed and in its order, and what    *)
(* a client prints after a line is the answer to it.                       *)
THEOREM AnswersInStep == Spec => []AnswersMatch
<1>1. ASSUME ServerInv PROVE AnswersMatch
  <2> SUFFICES ASSUME NEW c \in Clients, torn[c] = 0
               PROVE  /\ IsPrefix(executed[c], typed[c])
                      /\ \A i \in DOMAIN printed[c] : printed[c][i] = << <<i, 1>>, <<i, 2>> >>
    BY DEF AnswersMatch
  <2>1. OneLineAhead(c) /\ Printed(c) /\ executed[c] \in Seq(Seq(STRING))
    BY <1>1 DEF ServerInv, InStep, Dialogue, Streams
  <2>2. ASSUME executed[c] = typed[c] PROVE IsPrefix(executed[c], typed[c])
    BY <2>1, <2>2 DEF IsPrefix
  <2>3. ASSUME NEW line \in Lines, typed[c] = Append(executed[c], line)
        PROVE  IsPrefix(executed[c], typed[c])
    <3> DEFINE s == executed[c]
    <3>1. s \in Seq(Seq(STRING)) /\ line \in Seq(STRING) /\ typed[c] = Append(s, line)
      BY <2>1, <2>3, LinesAreTexts
    <3> HIDE DEF s
    <3>2. /\ Append(s, line) \in Seq(Seq(STRING)) /\ Len(Append(s, line)) = Len(s) + 1
          /\ \A i \in 1..Len(s) : Append(s, line)[i] = s[i]
      BY <3>1, AppendProperties
    <3>3. SubSeq(s, 1, Len(s)) = SubSeq(Append(s, line), 1, Len(s))
      BY <3>1, <3>2
    <3>4. IsPrefix(s, Append(s, line))
      BY <3>1, <3>2, <3>3 DEF IsPrefix
    <3>5. QED
      BY <3>1, <3>4 DEF s
  <2>4. IsPrefix(executed[c], typed[c])
    BY <2>1, <2>2, <2>3 DEF OneLineAhead
  <2>5. \A i \in DOMAIN printed[c] : printed[c][i] = << <<i, 1>>, <<i, 2>> >>
    BY <2>1 DEF Printed, Reply
  <2>6. QED
    BY <2>4, <2>5
<1>2. QED
  BY <1>1, Invariant, PTL

---------------------------------------------------------------------------
(* What parser and executor make of one text.                              *)

LEMMA LeastNat ==
  ASSUME NEW T, T \subseteq Nat, T # {}
  PROVE  \E m \in T : \A k \in T : m <= k
<1>1. PICK x \in T : \A y \in T : ~ (<<y, x>> \in OpToRel(<, Nat))
  BY NatLessThanWellFounded, WFMin
<1>2. ASSUME NEW y \in T PROVE ~(y < x)
  BY <1>1 DEF OpToRel
<1>3. QED
  BY <1>2

LEMMA Smallest ==
  ASSUME NEW S, S \subseteq Nat, S # {}
  PROVE  Min(S) \in S /\ \A k \in S : Min(S) <= k
<1>1. \E m \in S : \A k \in S : m <= k
  BY LeastNat
<1>2. QED
  BY <1>1 DEF Min

LEMMA Largest ==
  ASSUME NEW n \in Nat, NEW S, S \subseteq 1..n, S # {}
  PROVE  Max(S) \in S
<1> DEFINE T == { n - g : g \in S }
<1>1. \A g \in S : g \in 1..n /\ n - g \in Nat /\ n - g \in T
  OBVIOUS
<1> HIDE DEF T
<1>2. T \subseteq Nat /\ T # {}
  BY <1>1 DEF T
<1>3. PICK m \in T : \A k \in T : m <= k
  BY <1>2, LeastNat
<1>4. PICK g \in S : m = n - g
  BY <1>3 DEF T
<1>5. \A k \in S : k <= g
  BY <1>1, <1>3, <1>4
<1>6. QED
  BY <1>4, <1>5 DEF Max

LEMMA PrefixIs ==
  ASSUME NEW T, NEW w \in Seq(T), NEW s \in Seq(T)
  PROVE  IsPrefix(w, s) <=> Len(w) <= Len(s) /\ \A i \in 1..Len(w) : s[i] = w[i]
<1> DEFINE n == Len(w)
           a == SubSeq(w, 1, n)
           b == SubSeq(s, 1, n)
<1>1. IsPrefix(w, s) <=> n <= Len(s) /\ a = b
  BY DEF IsPrefix
<1>2. n \in Nat /\ Len(s) \in Nat
  OBVIOUS
<1>3. ASSUME n <= Len(s) PROVE a = b <=> \A i \in 1..n : s[i] = w[i]
  <2>1. /\ a \in Seq(T) /\ Len(a) = n /\ \A i \in 1..n : a[i] = w[i]
        /\ b \in Seq(T) /\ Len(b) = n /\ \A i \in 1..n : b[i] = s[i]
    BY <1>2, <1>3
  <2> HIDE DEF a, b, n
  <2>2. (\A i \in 1..n : a[i] = b[i]) => a = b
    BY <2>1, SeqEqual
  <2>3. QED
    BY <2>1, <2>2
<1> HIDE DEF a, b
<1>4. QED
  BY <1>1, <1>3

LEMMA PrefixOne ==
  ASSUME NEW T, NEW x \in T, NEW s \in Seq(T)
  PROVE  IsPrefix(<<x>>, s) <=> s # <<>> /\ s[1] = x
<1>1. <<x>> \in Seq(T) /\ Len(<<x>>) = 1 /\ <<x>>[1] = x
  OBVIOUS
<1>2. IsPrefix(<<x>>, s) <=> 1 <= Len(s) /\ \A i \in 1..1 : s[i] = <<x>>[i]
  BY <1>1, PrefixIs
<1>3. 1 <= Len(s) <=> s # <<>>
  OBVIOUS
<1>4. (\A i \in 1..1 : s[i] = <<x>>[i]) <=> s[1] = x
  BY <1>1
<1>5. QED
  BY <1>2, <1>3, <1>4

LEMMA PrefixThree ==
  ASSUME NEW T, NEW x \in T, NEW y \in T, NEW z \in T, NEW s \in Seq(T)
  PROVE  IsPrefix(<<x, y, z>>, s) <=> Len(s) >= 3 /\ s[1] = x /\ s[2] = y /\ s[3] = z
<1> DEFINE w == <<x, y, z>>
<1>1. w \in Seq(T) /\ Len(w) = 3 /\ w[1] = x /\ w[2] = y /\ w[3] = z
  OBVIOUS
<1> HIDE DEF w
<1>2. IsPrefix(w, s) <=> 3 <= Len(s) /\ \A i \in 1..3 : s[i] = w[i]
  <2>1. IsPrefix(w, s) <=> Len(w) <= Len(s) /\ \A i \in 1..Len(w) : s[i] = w[i]
    BY <1>1, PrefixIs, ZenonT(40)
  <2>2. QED
    BY <1>1, <2>1
<1>3. (\A i \in 1..3 : s[i] = w[i]) <=> s[1] = w[1] /\ s[2] = w[2] /\ s[3] = w[3]
  OBVIOUS
<1>4. Len(s) \in Nat
  OBVIOUS
<1>5. QED
  BY <1>1, <1>2, <1>3, <1>4 DEF w

\* strstr of one token.
LEMMA HasOne ==
  ASSUME NEW T, NEW x \in T, NEW s \in Seq(T)
  PROVE  Has(s, <<x>>) <=> \E i \in DOMAIN s : s[i] = x
<1>1. ASSUME NEW i \in DOMAIN s PROVE IsPrefix(<<x>>, SubSeq(s, i, Len(s))) <=> s[i] = x
  <2> DEFINE t == SubSeq(s, i, Len(s))
  <2>1. i \in 1..Len(s) /\ Len(s) \in Nat
    OBVIOUS
  <2>2. t \in Seq(T) /\ t # <<>> /\ t[1] = s[i]
    BY <2>1
  <2> HIDE DEF t
  <2>3. IsPrefix(<<x>>, t) <=> t[1] = x
    BY <2>2, PrefixOne
  <2>4. QED
    BY <2>2, <2>3 DEF t
<1>2. QED
  BY <1>1 DEF Has

LEMMA FirstOne ==
  ASSUME NEW T, NEW x \in T, NEW s \in Seq(T), Has(s, <<x>>)
  PROVE  First(s, <<x>>) \in DOMAIN s
<1> DEFINE S == { i \in DOMAIN s : IsPrefix(<<x>>, SubSeq(s, i, Len(s))) }
<1>1. S # {}
  BY DEF Has
<1>4. S \subseteq DOMAIN s /\ DOMAIN s \subseteq Nat
  OBVIOUS
<1>2. First(s, <<x>>) = Min(S)
  BY DEF First
<1> HIDE DEF S
<1>3. QED
  BY <1>1, <1>2, <1>4, Smallest

\* What stands behind a place of a text stands in the text.
LEMMA HasBehind ==
  ASSUME NEW T, NEW x \in T, NEW s \in Seq(T), NEW k \in DOMAIN s,
         Has(SubSeq(s, k, Len(s)), <<x>>)
  PROVE  Has(s, <<x>>)
<1> DEFINE t == SubSeq(s, k, Len(s))
<1>1. k \in 1..Len(s) /\ Len(s) \in Nat
  OBVIOUS
<1>2. t \in Seq(T) /\ Len(t) = Len(s) - k + 1 /\ \A i \in 1..Len(t) : t[i] = s[k + i - 1]
  BY <1>1
<1> HIDE DEF t
<1>3. PICK i \in DOMAIN t : t[i] = x
  BY <1>2, HasOne DEF t
<1>4. k + i - 1 \in DOMAIN s /\ s[k + i - 1] = x
  <2>1. DOMAIN t = 1..Len(t) /\ DOMAIN s = 1..Len(s)
    BY <1>2
  <2>2. t[i] = s[k + i - 1] /\ i \in 1..(Len(s) - k + 1)
    BY <1>2, <1>3, <2>1
  <2>3. QED
    BY <1>1, <1>3, <2>1, <2>2
<1>5. QED
  BY <1>4, HasOne

(***************************************************************************)
(* Words is STRING: that a literal is a string is the one thing no prover  *)
(* that is installed knows, so those that the proofs need are named.       *)
(***************************************************************************)
InCapitals ==
  {"BEGIN", "COMMIT", "ROLLBACK", "CREATE", "DROP", "SHOW", "INSERT", "UPDATE", "DELETE", "SELECT",
   "TABLE", "TABLES", "DATABASE", "DATABASES", "INTO", "VALUES", "FROM", "JOIN", "SET", "WHERE",
   "EXIT", "HELP", "ALTER", "EXEC", "WALTER"}

Keywords == InCapitals \cup {"sp", "(", ";", "\\c", "\\qdb"}

Words == STRING \cup Keywords

\* Only a keyword in lower case is another word in capitals, and a keyword there.
LEMMA InUpperIs ==
  ASSUME NEW w \in Words
  PROVE  /\ InUpper(w) \in Words
         /\ InUpper(w) = w \/ InUpper(w) \in InCapitals
         /\ w \in InCapitals \cup Blank \cup {"\\c", "\\qdb"} => InUpper(w) = w
<1> DEFINE small == {"begin", "commit", "rollback", "create", "drop", "show", "insert", "update", "delete",
                     "select", "table", "tables", "database", "databases", "into", "values", "from",
                     "join", "set", "where", "exit", "help", "alter", "exec", "Walter"}
<1>1. DOMAIN Capitals = small
  BY DEF Capitals
<1>2. \A v \in small : Capitals[v] \in InCapitals
  BY DEF Capitals, InCapitals
<1>3. \A v \in InCapitals \cup Blank \cup {"\\c", "\\qdb"} : v \notin small
  BY DEF InCapitals, Blank
<1>4. InCapitals \subseteq Words
  BY DEF Words, Keywords
<1> HIDE DEF small
<1>5. QED
  BY <1>1, <1>2, <1>3, <1>4 DEF InUpper

LEMMA UpperIs ==
  ASSUME NEW text \in Seq(Words)
  PROVE  /\ Upper(text) \in Seq(Words) /\ Len(Upper(text)) = Len(text)
         /\ \A i \in 1..Len(text) : Upper(text)[i] = InUpper(text[i])
<1> DEFINE u == [i \in 1..Len(text) |-> InUpper(text[i])]
<1>1. Upper(text) = u /\ Len(text) \in Nat
  BY DEF Upper
<1>2. \A i \in 1..Len(text) : InUpper(text[i]) \in Words
  BY InUpperIs
<1>3. u \in Seq(Words) /\ Len(u) = Len(text)
  BY <1>1, <1>2, IsASeq
<1>4. QED
  BY <1>1, <1>3

LEMMA TrimmedStarts ==
  ASSUME NEW text \in Seq(Words), text # <<>>
  PROVE  /\ trim_semicolon(text) \in Seq(Words)
         /\ trim_semicolon(text) # <<>> => trim_semicolon(text)[1] = text[1]
<1> DEFINE solid == { i \in DOMAIN text : text[i] \notin Blank \cup {";"} }
<1>1. trim_semicolon(text) = IF solid = {} THEN <<>> ELSE SubSeq(text, 1, Max(solid))
  BY DEF trim_semicolon
<1>2. solid \subseteq 1..Len(text) /\ Len(text) \in Nat
  <2>1. DOMAIN text = 1..Len(text) /\ Len(text) \in Nat
    OBVIOUS
  <2>2. solid \subseteq DOMAIN text
    OBVIOUS
  <2>3. QED
    BY <2>1, <2>2
<1> HIDE DEF solid
<1>3. CASE solid = {}
  BY <1>1, <1>3
<1>4. CASE solid # {}
  <2>1. Max(solid) \in 1..Len(text)
    BY <1>2, <1>4, Largest
  <2>2. \A m \in 1..Len(text) : SubSeq(text, 1, m) \in Seq(Words) /\ SubSeq(text, 1, m)[1] = text[1]
    BY <1>2
  <2>3. QED
    BY <1>1, <1>4, <2>1, <2>2
<1>5. QED
  BY <1>3, <1>4

\* A text that starts with no blank is the same text to both.
LEMMA SameText ==
  ASSUME NEW text \in Seq(Words), text # <<>>, text[1] \notin Blank
  PROVE  trim(text) = trim_semicolon(text)
<1> DEFINE solid == SolidUpTo(text, Len(text))
<1>1. solid \subseteq Nat /\ 1 \in solid /\ \A i \in solid : i >= 1
  <2>1. DOMAIN text = 1..Len(text) /\ Len(text) \in Nat /\ Len(text) # 0
    OBVIOUS
  <2>2. 1 \in DOMAIN text /\ DOMAIN text \subseteq Nat /\ \A i \in DOMAIN text : i >= 1
    BY <2>1
  <2> HIDE DEF solid
  <2>3. 1 \in solid /\ solid \subseteq DOMAIN text
    BY <2>1, <2>2 DEF solid, SolidUpTo
  <2>4. QED
    BY <2>2, <2>3
<1>2. trim(text) = IF solid = {} THEN <<>> ELSE trim_semicolon(SubSeq(text, Min(solid), Len(text)))
  BY DEF trim
<1> HIDE DEF solid
<1>3. Min(solid) = 1
  <2>1. Min(solid) \in solid /\ Min(solid) <= 1
    BY <1>1, Smallest
  <2>2. Min(solid) >= 1 /\ Min(solid) \in Nat
    BY <1>1, <2>1
  <2> DEFINE m == Min(solid)
  <2>3. m \in Nat /\ m >= 1 /\ m <= 1
    BY <2>1, <2>2
  <2> HIDE DEF m
  <2>4. m = 1
    BY <2>3
  <2>5. QED
    BY <2>4 DEF m
<1>4. SubSeq(text, 1, Len(text)) = text
  OBVIOUS
<1>5. QED
  BY <1>1, <1>2, <1>3, <1>4

(***************************************************************************)
(* What a text that the parser accepts starts with, in capitals.           *)
(***************************************************************************)
Accepted(type, raw) ==
  LET u == Upper(raw)
  IN CASE type = "begin"       -> u = <<"BEGIN">>
       [] type = "commit"      -> u = <<"COMMIT">>
       [] type = "rollback"    -> u = <<"ROLLBACK">>
       [] type = "show_tables" -> u = <<"SHOW", "sp", "TABLES">>
       [] type = "drop"        -> IsPrefix(<<"DROP", "sp", "TABLE">>, u) /\ Scan(raw, <<"DROP", "TABLE">>)
       [] type = "create"      -> IsPrefix(<<"CREATE", "sp", "TABLE">>, u) /\ Scan(raw, <<"CREATE", "TABLE">>)
       [] type = "insert"      -> IsPrefix(<<"INSERT", "sp", "INTO">>, u) /\ parse_insert(raw)
       [] type = "select"      -> IsPrefix(<<"SELECT">>, u)
       [] type = "update"      -> IsPrefix(<<"UPDATE">>, u)
       [] type = "delete"      -> IsPrefix(<<"DELETE", "sp", "FROM">>, u) /\ Scan(raw, <<"DELETE", "FROM">>)
       [] OTHER                -> FALSE

Types == {"begin", "commit", "rollback", "show_tables", "drop", "create", "insert", "select",
          "update", "delete"}

LEMMA TypeStart ==
  ASSUME NEW text
  PROVE  LET type == parser_parse(text)
         IN type # "refused" => type \in Types /\ Accepted(type, trim(text))
<1> DEFINE raw == trim(text)
           u   == Upper(raw)
<1>1. parser_parse(text) =
        IF ~parser_is_safe_sql(raw) THEN "refused"
        ELSE IF u = <<"BEGIN">>                THEN "begin"
        ELSE IF u = <<"COMMIT">>               THEN "commit"
        ELSE IF u = <<"ROLLBACK">>             THEN "rollback"
        ELSE IF u = <<"SHOW", "sp", "TABLES">> THEN "show_tables"
        ELSE IF IsPrefix(<<"DROP", "sp", "TABLE">>, u) /\ Scan(raw, <<"DROP", "TABLE">>)      THEN "drop"
        ELSE IF IsPrefix(<<"CREATE", "sp", "TABLE">>, u) /\ Scan(raw, <<"CREATE", "TABLE">>)  THEN "create"
        ELSE IF IsPrefix(<<"INSERT", "sp", "INTO">>, u) /\ parse_insert(raw)                  THEN "insert"
        ELSE IF IsPrefix(<<"SELECT">>, u) /\ parse_select(raw)                                THEN "select"
        ELSE IF IsPrefix(<<"UPDATE">>, u) /\ Scan(raw, <<"UPDATE">>)                          THEN "update"
        ELSE IF IsPrefix(<<"DELETE", "sp", "FROM">>, u) /\ Scan(raw, <<"DELETE", "FROM">>)    THEN "delete"
        ELSE "refused"
  BY Zenon DEF parser_parse
<1> HIDE DEF raw, u
<1> DEFINE type == parser_parse(text)
<1>2. type # "refused" => type \in Types /\ Accepted(type, raw)
  BY <1>1 DEF Types, Accepted, u
<1>3. QED
  BY <1>2 DEF raw

TypeWord(type) ==
  CASE type = "begin"       -> "BEGIN"
    [] type = "commit"      -> "COMMIT"
    [] type = "rollback"    -> "ROLLBACK"
    [] type = "show_tables" -> "SHOW"
    [] type = "drop"        -> "DROP"
    [] type = "create"      -> "CREATE"
    [] type = "insert"      -> "INSERT"
    [] type = "select"      -> "SELECT"
    [] type = "update"      -> "UPDATE"
    [] OTHER                -> "DELETE"

LEMMA AcceptedWord ==
  ASSUME NEW type \in Types, NEW raw \in Seq(Words), Accepted(type, raw)
  PROVE  Upper(raw) # <<>> /\ Upper(raw)[1] = TypeWord(type)
<1> DEFINE u == Upper(raw)
<1>0. u \in Seq(Words)
  BY UpperIs
<1> HIDE DEF u
<1>1. /\ {"BEGIN", "COMMIT", "ROLLBACK", "SHOW", "DROP", "CREATE", "INSERT", "SELECT", "UPDATE", "DELETE",
           "sp", "TABLE", "TABLES", "INTO", "FROM"} \subseteq Words
  BY DEF Words, Keywords, InCapitals
<1>2. \A x \in Words : u = <<x>> => u # <<>> /\ u[1] = x
  BY <1>0
<1>3. \A x, y, z \in Words : u = <<x, y, z>> => u # <<>> /\ u[1] = x
  BY <1>0
<1>4. \A x \in Words : IsPrefix(<<x>>, u) => u # <<>> /\ u[1] = x
  BY <1>0, PrefixOne
<1>5. \A x, y, z \in Words : IsPrefix(<<x, y, z>>, u) => u # <<>> /\ u[1] = x
  BY <1>0, PrefixThree
<1> HIDE DEF Words
<1>6. CASE type \in {"begin", "commit", "rollback"}
  BY <1>1, <1>2, <1>6 DEF Accepted, TypeWord, u
<1>7. CASE type = "show_tables"
  BY <1>1, <1>3, <1>7 DEF Accepted, TypeWord, u
<1>8. CASE type \in {"select", "update"}
  BY <1>1, <1>4, <1>8 DEF Accepted, TypeWord, u
<1>9. CASE type \in {"drop", "create", "insert", "delete"}
  BY <1>1, <1>5, <1>9 DEF Accepted, TypeWord, u
<1>10. QED
  BY <1>6, <1>7, <1>8, <1>9 DEF Types, u

Refusals == {"refused", "no_database", "not_recognised"}

FirstWord(handler) ==
  CASE handler = "begin"                                 -> "BEGIN"
    [] handler = "commit"                                -> "COMMIT"
    [] handler = "rollback"                              -> "ROLLBACK"
    [] handler \in {"show_tables", "show_databases"}     -> "SHOW"
    [] handler \in {"drop_table", "drop_database"}       -> "DROP"
    [] handler \in {"create_table", "create_database"}   -> "CREATE"
    [] handler \in {"insert", "old_insert"}              -> "INSERT"
    [] handler \in {"update", "bad_update"}              -> "UPDATE"
    [] handler \in {"delete_where_id", "delete_all"}     -> "DELETE"
    [] handler = "use_database"                          -> "\\c"
    [] handler = "quit_database"                         -> "\\qdb"
    [] handler = "help"                                  -> "HELP"
    [] OTHER                                             -> "SELECT"

Handlers ==
  QuickHandlers \cup Refusals \cup
    {"begin", "commit", "rollback", "drop_table", "create_table", "insert", "old_insert", "update",
     "bad_update", "delete_where_id", "delete_all", "join", "select_where_id", "select", "show_tables"}

LEMMA ScanWord ==
  ASSUME NEW q, NEW words, Scan(q, words)
  PROVE  q # <<>> /\ q[1] = words[1]
BY DEF Scan, Literal

Reached(handler, q) ==
  CASE handler = "create_database" -> Scan(q, <<"CREATE", "DATABASE">>)
    [] handler = "drop_database"   -> Scan(q, <<"DROP", "DATABASE">>)
    [] handler = "use_database"    -> Scan(q, <<"\\c">>)
    [] handler = "show_databases"  -> q = <<"SHOW", "sp", "DATABASES">>
    [] handler = "quit_database"   -> q = <<"\\qdb">>
    [] handler = "help"            -> Upper(q) = <<"HELP">>
    [] handler = "begin"           -> IsPrefix(<<"BEGIN">>, q)
    [] handler = "commit"          -> IsPrefix(<<"COMMIT">>, q)
    [] handler = "rollback"        -> IsPrefix(<<"ROLLBACK">>, q)
    [] handler = "drop_table"      -> Scan(q, <<"DROP", "TABLE">>)
    [] handler = "create_table"    -> IsPrefix(<<"CREATE", "sp", "TABLE">>, q)
    [] handler = "insert"          -> IsPrefix(<<"INSERT", "sp", "INTO">>, q)
    [] handler = "old_insert"      -> /\ Scan(q, <<"INSERT", "INTO">>)
                                      /\ ~(IsPrefix(<<"INSERT", "sp", "INTO">>, q) /\ Has(q, <<"(">>))
    [] handler = "update"          -> Scan(q, <<"UPDATE">>)
    [] handler = "bad_update"      -> IsPrefix(<<"UPDATE">>, q)
    [] handler \in {"delete_where_id", "delete_all"}     -> Scan(q, <<"DELETE", "FROM">>)
    [] handler \in {"join", "select_where_id", "select"} -> Scan(q, <<"SELECT", "*", "FROM">>)
    [] handler = "show_tables"     -> IsPrefix(<<"SHOW", "sp", "TABLES">>, q)
    [] OTHER                       -> TRUE

\* Under which conditions a handler is reached.
LEMMA HandlerGuards ==
  ASSUME NEW text, NEW selected \in BOOLEAN
  PROVE  LET q       == trim_semicolon(text)
             handler == Handler(text, selected)
             type    == parser_parse(text)
         IN /\ handler \in Handlers
            /\ Reached(handler, q)
            /\ handler \notin QuickHandlers \cup {"refused"} => type # "refused"
            /\ handler = "refused" => type = "refused"
            /\ handler = "no_database" => NeedsDatabase(q)
            /\ handler \notin QuickHandlers \cup {"refused", "no_database"} => selected \/ ~NeedsDatabase(q)
<1> DEFINE q       == trim_semicolon(text)
           handler == Handler(text, selected)
           type    == parser_parse(text)
           all     == <<"SELECT", "*", "FROM">>
           delete  == <<"DELETE", "FROM">>
<1>1. handler =
        IF Scan(q, <<"CREATE", "DATABASE">>)                  THEN "create_database"
        ELSE IF Scan(q, <<"DROP", "DATABASE">>)               THEN "drop_database"
        ELSE IF Scan(q, <<"\\c">>)                            THEN "use_database"
        ELSE IF q = <<"SHOW", "sp", "DATABASES">>             THEN "show_databases"
        ELSE IF q = <<"\\qdb">>                               THEN "quit_database"
        ELSE IF Upper(q) = <<"HELP">>                         THEN "help"
        ELSE IF type = "refused"                              THEN "refused"
        ELSE IF NeedsDatabase(q) /\ ~selected                 THEN "no_database"
        ELSE IF IsPrefix(<<"BEGIN">>, q)                      THEN "begin"
        ELSE IF IsPrefix(<<"COMMIT">>, q)                     THEN "commit"
        ELSE IF IsPrefix(<<"ROLLBACK">>, q)                   THEN "rollback"
        ELSE IF Scan(q, <<"DROP", "TABLE">>)                  THEN "drop_table"
        ELSE IF IsPrefix(<<"CREATE", "sp", "TABLE">>, q)      THEN "create_table"
        ELSE IF IsPrefix(<<"INSERT", "sp", "INTO">>, q) /\ Has(q, <<"(">>) THEN "insert"
        ELSE IF ScanThen(q, <<"INSERT", "INTO">>, <<"VALUES">>)            THEN "old_insert"
        ELSE IF IsUpdate(q)                                   THEN "update"
        ELSE IF IsPrefix(<<"UPDATE">>, q)                     THEN "bad_update"
        ELSE IF Scan(q, delete) /\ HasIdCondition(AfterName(q, delete))    THEN "delete_where_id"
        ELSE IF Scan(q, delete)                               THEN "delete_all"
        ELSE IF ScanThen(q, all, <<"JOIN">>) /\ Len(Solid(AfterName(q, all))) > 1 THEN "join"
        ELSE IF Scan(q, all) /\ HasIdCondition(AfterName(q, all))          THEN "select_where_id"
        ELSE IF Scan(q, all)                                  THEN "select"
        ELSE IF IsPrefix(<<"SHOW", "sp", "TABLES">>, q)       THEN "show_tables"
        ELSE "not_recognised"
  BY Zenon DEF Handler
<1>2. /\ ScanThen(q, <<"INSERT", "INTO">>, <<"VALUES">>) => Scan(q, <<"INSERT", "INTO">>)
      /\ IsUpdate(q) => Scan(q, <<"UPDATE">>)
      /\ ScanThen(q, all, <<"JOIN">>) => Scan(q, all)
  BY DEF ScanThen, IsUpdate
<1> HIDE DEF q, handler, type
<1>3. handler \in Handlers
  BY <1>1, SMTT(30) DEF Handlers, QuickHandlers, Refusals
<1>4. Reached(handler, q)
  BY <1>1, <1>2 DEF Reached
<1>5. handler \notin QuickHandlers \cup {"refused"} => type # "refused"
  BY <1>1 DEF QuickHandlers
<1>6. handler = "refused" => type = "refused"
  BY <1>1
<1>7. handler \notin QuickHandlers \cup {"refused", "no_database"} => selected \/ ~NeedsDatabase(q)
  BY <1>1 DEF QuickHandlers
<1>8. handler = "no_database" => NeedsDatabase(q)
  BY <1>1
<1>9. QED
  BY <1>3, <1>4, <1>5, <1>6, <1>7, <1>8 DEF q, handler, type

LEMMA ReachedWord ==
  ASSUME NEW handler \in Handlers, handler \notin Refusals,
         NEW q \in Seq(Words), Reached(handler, q)
  PROVE  /\ q # <<>> /\ InUpper(q[1]) = FirstWord(handler) /\ q[1] \notin Blank
         /\ handler # "help" => q[1] = FirstWord(handler)
<1>1. {"BEGIN", "COMMIT", "ROLLBACK", "SHOW", "DROP", "CREATE", "INSERT", "SELECT", "UPDATE", "DELETE",
       "sp", "TABLE", "TABLES", "INTO", "DATABASES", "\\qdb", "HELP"} \subseteq Words
  BY DEF Words, Keywords, InCapitals
<1>2. \A x \in Words : IsPrefix(<<x>>, q) => q # <<>> /\ q[1] = x
  BY PrefixOne
<1>3. \A x, y, z \in Words : IsPrefix(<<x, y, z>>, q) => q # <<>> /\ q[1] = x
  BY PrefixThree
<1>4. \A w : Scan(q, w) => q # <<>> /\ q[1] = w[1]
  BY ScanWord
<1> HIDE DEF Words
<1>5. handler \in {"begin", "commit", "rollback", "bad_update"} => q # <<>> /\ q[1] = FirstWord(handler)
  BY <1>1, <1>2 DEF Reached, FirstWord
<1>6. handler \in {"create_table", "insert", "show_tables"} => q # <<>> /\ q[1] = FirstWord(handler)
  BY <1>1, <1>3 DEF Reached, FirstWord
<1>7. handler \in {"create_database", "drop_database"} => q # <<>> /\ q[1] = FirstWord(handler)
  BY <1>4 DEF Reached, FirstWord
<1>8. handler \in {"use_database", "update"} => q # <<>> /\ q[1] = FirstWord(handler)
  BY <1>4 DEF Reached, FirstWord
<1>9. handler \in {"drop_table", "old_insert"} => q # <<>> /\ q[1] = FirstWord(handler)
  BY <1>4 DEF Reached, FirstWord
<1>10. handler \in {"delete_where_id", "delete_all"} => q # <<>> /\ q[1] = FirstWord(handler)
  BY <1>4 DEF Reached, FirstWord
<1>11. handler \in {"join", "select_where_id", "select"} => q # <<>> /\ q[1] = FirstWord(handler)
  BY <1>4 DEF Reached, FirstWord
<1>12. handler = "show_databases" => q # <<>> /\ q[1] = FirstWord(handler)
  BY DEF Reached, FirstWord
<1>13. handler = "quit_database" => q # <<>> /\ q[1] = FirstWord(handler)
  BY DEF Reached, FirstWord
<1>14. handler # "help" => q # <<>> /\ q[1] = FirstWord(handler)
  BY <1>5, <1>6, <1>7, <1>8, <1>9, <1>10, <1>11, <1>12, <1>13 DEF Handlers, QuickHandlers, Refusals
<1>15. FirstWord(handler) \in InCapitals \cup {"\\c", "\\qdb"}
  BY DEF FirstWord, InCapitals
<1>16. \A v \in InCapitals \cup {"\\c", "\\qdb"} : v \notin Blank
  BY DEF InCapitals, Blank
<1>17. q # <<>> => q[1] \in Words
  OBVIOUS
<1>18. CASE handler = "help"
  <2>1. Upper(q) = <<"HELP">> /\ FirstWord(handler) = "HELP"
    BY <1>18 DEF Reached, FirstWord
  <2>2. Len(q) = 1 /\ q # <<>> /\ Upper(q)[1] = "HELP"
    BY <2>1, UpperIs
  <2>3. InUpper(q[1]) = "HELP"
    BY <2>2, UpperIs
  <2>4. q[1] \notin Blank
    BY <1>15, <1>16, <1>17, <2>1, <2>2, <2>3, InUpperIs
  <2>5. QED
    BY <1>18, <2>1, <2>2, <2>3, <2>4
<1>19. CASE handler # "help"
  BY <1>14, <1>15, <1>16, <1>17, <1>19, InUpperIs
<1>20. QED
  BY <1>18, <1>19

LEMMA ThreeApart ==
  ASSUME NEW S, IsFiniteSet(S), NEW a \in S, NEW b \in S, NEW c \in S, a # b, a # c, b # c
  PROVE  Cardinality(S) # 2
<1> DEFINE R == S \ {a}
           Q == R \ {b}
<1>1. IsFiniteSet(R) /\ Cardinality(R) = Cardinality(S) - 1
  BY FS_RemoveElement
<1>2. b \in R
  OBVIOUS
<1>3. IsFiniteSet(Q) /\ Cardinality(Q) = Cardinality(R) - 1
  BY <1>1, <1>2, FS_RemoveElement
<1>4. Q # {}
  <2>1. c \in Q
    OBVIOUS
  <2>2. QED
    BY <2>1
<1> HIDE DEF R, Q
<1>5. Cardinality(Q) # 0
  BY <1>3, <1>4, FS_EmptySet
<1>6. Cardinality(S) \in Nat
  BY FS_CardinalityType
<1>7. QED
  BY <1>1, <1>3, <1>5, <1>6

(***************************************************************************)
(* sscanf is of two minds about blanks and of one about case, the parser's *)
(* prefix the other way: together they leave the words as they are spelled *)
(* and one space between them.                                             *)
(***************************************************************************)
LEMMA UpperPrefix ==
  ASSUME NEW q \in Seq(Words),
         NEW x \in Words, x \notin Blank,
         NEW z \in Words, z \notin Blank,
         IsPrefix(<<x, "sp", z>>, Upper(q)), Scan(q, <<x, z>>)
  PROVE  IsPrefix(<<x, "sp", z>>, q)
<1> DEFINE u == Upper(q)
           words == <<x, z>>
<1>1. u \in Seq(Words) /\ Len(u) = Len(q) /\ \A i \in 1..Len(q) : u[i] = InUpper(q[i])
  BY UpperIs
<1>2. words[1] = x /\ words[2] = z /\ 2 \in DOMAIN words
  OBVIOUS
<1>3. q[1] = x
  BY <1>2 DEF Scan, Literal
<1>4. PICK i \in DOMAIN q : q[i] = z /\ Cardinality(SolidUpTo(q, i)) = 2
  BY <1>2, Zenon DEF Scan, Literal
<1> HIDE DEF u, words
<1>5. "sp" \in Words /\ "sp" \notin InCapitals /\ "sp" \in Blank
  BY DEF Words, Keywords, InCapitals, Blank
<1>6. Len(u) >= 3 /\ u[1] = x /\ u[2] = "sp" /\ u[3] = z
  BY <1>1, <1>5, PrefixThree DEF u
<1>7. Len(q) \in Nat /\ Len(q) >= 3 /\ DOMAIN q = 1..Len(q) /\ 2 \in 1..Len(q) /\ 3 \in 1..Len(q)
  BY <1>1, <1>6
<1>8. q[2] \in Words /\ q[3] \in Words /\ InUpper(q[2]) = "sp" /\ InUpper(q[3]) = z
  BY <1>1, <1>6, <1>7
<1>9. q[2] = "sp"
  BY <1>5, <1>8, InUpperIs
<1>10. q[3] \notin Blank
  BY <1>8, InUpperIs
<1> DEFINE S == SolidUpTo(q, i)
<1>11. i \in Nat /\ i >= 1 /\ \A j : j \in S <=> j \in 1..i /\ q[j] \notin Blank
  BY <1>4, <1>7 DEF SolidUpTo
<1>12. IsFiniteSet(S)
  <2>1. S \subseteq 1..i /\ IsFiniteSet(1..i)
    BY <1>11, FS_Interval
  <2>2. QED
    BY <2>1, FS_Subset
<1>13. Cardinality(S) = 2
  BY <1>4
<1> HIDE DEF S
<1>14. i # 1
  <2>1. SUFFICES ASSUME i = 1 PROVE FALSE
    OBVIOUS
  <2>2. S = {1}
    <3>1. 1 \in S /\ \A j \in S : j = 1
      BY <1>3, <1>4, <1>11, <2>1
    <3>2. QED
      BY <3>1
  <2>3. Cardinality(S) = 1
    BY <2>2, FS_Singleton
  <2>4. QED
    BY <1>13, <2>3
<1>15. i # 2
  BY <1>4, <1>5, <1>9
<1>16. ~(i > 3)
  <2>1. SUFFICES ASSUME i > 3 PROVE FALSE
    OBVIOUS
  <2>2. 1 \in S /\ 3 \in S /\ i \in S
    BY <1>3, <1>4, <1>10, <1>11, <2>1
  <2>3. 1 # 3 /\ i # 1 /\ i # 3
    BY <2>1
  <2>4. Cardinality(S) # 2
    BY <1>12, <2>2, <2>3, ThreeApart
  <2>5. QED
    BY <1>13, <2>4
<1>17. i = 3
  BY <1>11, <1>14, <1>15, <1>16
<1>18. QED
  BY <1>3, <1>4, <1>5, <1>7, <1>9, <1>17, PrefixThree

LEMMA NeedsWord ==
  ASSUME NEW q \in Seq(Words), NeedsDatabase(q)
  PROVE  q # <<>> /\ q[1] \notin Blank
<1>1. {"SHOW", "DROP", "CREATE", "INSERT", "SELECT", "UPDATE", "DELETE",
       "sp", "TABLE", "TABLES", "INTO", "FROM"} \subseteq Words
  BY DEF Words, Keywords, InCapitals
<1>2. \A x \in Words : IsPrefix(<<x>>, q) => q # <<>> /\ q[1] = x
  BY PrefixOne
<1>3. \A x, y, z \in Words : IsPrefix(<<x, y, z>>, q) => q # <<>> /\ q[1] = x
  BY PrefixThree
<1> HIDE DEF Words
<1>4. PICK w \in { <<"CREATE", "sp", "TABLE">>, <<"INSERT", "sp", "INTO">>, <<"SELECT">>,
             <<"UPDATE">>, <<"DELETE", "sp", "FROM">>, <<"DROP", "sp", "TABLE">>,
             <<"SHOW", "sp", "TABLES">> } : IsPrefix(w, q)
  BY Zenon DEF NeedsDatabase
<1>5. CASE w \in { <<"SELECT">>, <<"UPDATE">> }
  BY <1>1, <1>2, <1>4, <1>5 DEF Blank
<1>6. CASE w \in { <<"CREATE", "sp", "TABLE">>, <<"INSERT", "sp", "INTO">> }
  BY <1>1, <1>3, <1>4, <1>6 DEF Blank
<1>7. CASE w \in { <<"DELETE", "sp", "FROM">>, <<"DROP", "sp", "TABLE">>, <<"SHOW", "sp", "TABLES">> }
  BY <1>1, <1>3, <1>4, <1>7 DEF Blank
<1>8. QED
  BY <1>4, <1>5, <1>6, <1>7

\* Every statement on data or tables needs a database.
LEMMA DataNeeds ==
  ASSUME NEW q \in Seq(Words), NEW handler \in Handlers, handler \notin Refusals,
         handler \notin QuickHandlers \cup {"begin", "commit", "rollback"},
         Reached(handler, q),
         NEW type \in Types, TypeWord(type) = FirstWord(handler), Accepted(type, q)
  PROVE  NeedsDatabase(q)
<1>1. {"SHOW", "DROP", "CREATE", "INSERT", "SELECT", "UPDATE", "DELETE",
       "sp", "TABLE", "TABLES", "INTO", "FROM"} \subseteq Words
  BY DEF Words, Keywords, InCapitals
<1>0. \A x \in {"DROP", "CREATE", "INSERT", "DELETE", "TABLE", "INTO", "FROM"} : x \notin Blank
  BY DEF Blank
<1>2. q # <<>> /\ q[1] = FirstWord(handler)
  BY ReachedWord DEF QuickHandlers
<1>3. \A x \in Words : q[1] = x => IsPrefix(<<x>>, q)
  BY <1>2, PrefixOne
<1> HIDE DEF Words
<1>4. CASE type \in {"select", "update"}
  <2>1. IsPrefix(<<"SELECT">>, q) \/ IsPrefix(<<"UPDATE">>, q)
    BY <1>1, <1>2, <1>3, <1>4 DEF TypeWord
  <2>2. QED
    BY <2>1 DEF NeedsDatabase
<1>5. CASE type = "drop"
  <2>1. IsPrefix(<<"DROP", "sp", "TABLE">>, q)
    BY <1>1, <1>0, <1>5, UpperPrefix DEF Accepted
  <2>2. QED
    BY <2>1 DEF NeedsDatabase
<1>6. CASE type = "create"
  <2>1. IsPrefix(<<"CREATE", "sp", "TABLE">>, q)
    BY <1>1, <1>0, <1>6, UpperPrefix DEF Accepted
  <2>2. QED
    BY <2>1 DEF NeedsDatabase
<1>7. CASE type = "insert"
  <2>1. IsPrefix(<<"INSERT", "sp", "INTO">>, q)
    BY <1>1, <1>0, <1>7, UpperPrefix DEF Accepted, parse_insert
  <2>2. QED
    BY <2>1 DEF NeedsDatabase
<1>8. CASE type = "delete"
  <2>1. IsPrefix(<<"DELETE", "sp", "FROM">>, q)
    BY <1>1, <1>0, <1>8, UpperPrefix DEF Accepted
  <2>2. QED
    BY <2>1 DEF NeedsDatabase
<1>9. CASE type = "show_tables"
  <2>1. handler = "show_tables"
    BY <1>9 DEF TypeWord, FirstWord, Handlers, QuickHandlers, Refusals
  <2>2. IsPrefix(<<"SHOW", "sp", "TABLES">>, q)
    BY <2>1 DEF Reached
  <2>3. QED
    BY <2>2 DEF NeedsDatabase
<1>10. CASE type \in {"begin", "commit", "rollback"}
  BY <1>10 DEF TypeWord, FirstWord, Handlers, QuickHandlers, Refusals
<1>11. QED
  BY <1>4, <1>5, <1>6, <1>7, <1>8, <1>9, <1>10 DEF Types

\* The first word alone decides which type and which handler it is.
LEMMA SameWord ==
  ASSUME NEW handler \in Handlers, handler \notin Refusals \cup QuickHandlers,
         handler # "old_insert",
         NEW type \in Types, TypeWord(type) = FirstWord(handler)
  PROVE  handler \in HandlersOf(type)
BY DEF Handlers, Types, Refusals, QuickHandlers, TypeWord, FirstWord, HandlersOf

\* An INSERT that the parser accepts has values in parentheses.
LEMMA NoOldInsert ==
  ASSUME NEW q \in Seq(Words), Accepted("insert", q)
  PROVE  IsPrefix(<<"INSERT", "sp", "INTO">>, q) /\ Has(q, <<"(">>)
<1>1. {"INSERT", "INTO", "(", "VALUES"} \subseteq Words /\ "INSERT" \notin Blank /\ "INTO" \notin Blank
  BY DEF Words, Keywords, InCapitals, Blank
<1> HIDE DEF Words
<1>2. IsPrefix(<<"INSERT", "sp", "INTO">>, Upper(q)) /\ parse_insert(q)
  BY DEF Accepted
<1>3. IsPrefix(<<"INSERT", "sp", "INTO">>, q)
  BY <1>1, <1>2, UpperPrefix DEF parse_insert
<1>4. /\ Has(Upper(q), <<"VALUES">>)
      /\ Has(SubSeq(q, First(Upper(q), <<"VALUES">>), Len(q)), <<"(">>)
  BY <1>2 DEF parse_insert
<1>5. Upper(q) \in Seq(Words) /\ Len(Upper(q)) = Len(q)
  BY UpperIs
<1>6. First(Upper(q), <<"VALUES">>) \in DOMAIN Upper(q)
  BY <1>1, <1>4, <1>5, FirstOne
<1>7. DOMAIN Upper(q) = DOMAIN q
  BY <1>5
<1>8. QED
  BY <1>1, <1>3, <1>4, <1>6, <1>7, HasBehind

LEMMA AgreesAlways ==
  ASSUME NEW text \in Seq(Words), text # <<>>, NEW selected \in BOOLEAN
  PROVE  Agrees(text, selected)
<1> DEFINE q       == trim_semicolon(text)
           handler == Handler(text, selected)
           type    == parser_parse(text)
<1>1. q \in Seq(Words) /\ (q # <<>> => q[1] = text[1])
  BY TrimmedStarts
<1>2. /\ handler \in Handlers
      /\ Reached(handler, q)
      /\ handler \notin QuickHandlers \cup {"refused"} => type # "refused"
      /\ handler = "refused" => type = "refused"
      /\ handler = "no_database" => NeedsDatabase(q)
      /\ handler \notin QuickHandlers \cup {"refused", "no_database"} => selected \/ ~NeedsDatabase(q)
  BY HandlerGuards
<1>3. type # "refused" => type \in Types /\ Accepted(type, trim(text))
  BY TypeStart
<1>4. text[1] \notin Blank => trim(text) = q
  BY SameText
<1> HIDE DEF q, handler, type
<1>5. handler \notin Refusals =>
        /\ q # <<>> /\ InUpper(q[1]) = FirstWord(handler) /\ q[1] \notin Blank
        /\ handler # "help" => q[1] = FirstWord(handler)
  BY <1>1, <1>2, ReachedWord
<1>6. text[1] \in Blank => handler \in {"refused", "not_recognised"}
  <2>1. ASSUME text[1] \in Blank, handler \notin Refusals PROVE FALSE
    BY <1>1, <1>2, <1>5, <2>1
  <2>2. ASSUME text[1] \in Blank, handler = "no_database" PROVE FALSE
    BY <1>1, <1>2, <2>2, NeedsWord
  <2>3. QED
    BY <2>1, <2>2 DEF Refusals
<1>7. ASSUME handler \notin Refusals, handler \notin QuickHandlers
      PROVE  /\ handler \in HandlersOf(type)
             /\ selected \/ handler \in {"begin", "commit", "rollback"}
  <2>1. text[1] \notin Blank /\ trim(text) = q
    BY <1>4, <1>6, <1>7 DEF Refusals
  <2>2. type \in Types /\ Accepted(type, q)
    BY <1>2, <1>3, <1>7, <2>1 DEF Refusals
  <2>3. TypeWord(type) = FirstWord(handler)
    <3>1. Upper(q) \in Seq(Words) /\ Len(Upper(q)) = Len(q) /\ \A i \in 1..Len(q) : Upper(q)[i] = InUpper(q[i])
      BY <1>1, UpperIs
    <3>2. Upper(q)[1] = TypeWord(type)
      BY <1>1, <2>2, AcceptedWord
    <3>3. 1 \in 1..Len(q)
      BY <1>1, <1>5, <1>7
    <3>4. QED
      BY <1>5, <1>7, <3>1, <3>2, <3>3
  <2>4. handler # "old_insert"
    <3>1. SUFFICES ASSUME handler = "old_insert" PROVE FALSE
      OBVIOUS
    <3>2. type = "insert"
      BY <2>2, <2>3, <3>1 DEF TypeWord, FirstWord, Types
    <3>3. Accepted("insert", q)
      BY <2>2, <3>2
    <3>4. IsPrefix(<<"INSERT", "sp", "INTO">>, q) /\ Has(q, <<"(">>)
      BY <1>1, <3>3, NoOldInsert
    <3>5. QED
      BY <1>2, <3>1, <3>4 DEF Reached
  <2>5. handler \in HandlersOf(type)
    BY <1>2, <1>7, <2>2, <2>3, <2>4, SameWord
  <2>6. ASSUME handler \notin {"begin", "commit", "rollback"} PROVE selected
    <3>1. NeedsDatabase(q)
      BY <1>1, <1>2, <1>7, <2>2, <2>3, <2>6, DataNeeds
    <3>2. QED
      BY <1>2, <1>7, <3>1 DEF Refusals
  <2>7. QED
    BY <2>5, <2>6
<1>8. handler = "refused" => handler \in HandlersOf(type)
  BY <1>2 DEF HandlersOf
<1>9. \/ handler \in QuickHandlers \cup HandlersOf(type)
      \/ handler \in {"no_database", "not_recognised"} /\ type # "refused"
  BY <1>2, <1>7, <1>8 DEF Refusals, QuickHandlers
<1>10. selected \/ handler \in QuickHandlers \cup
          {"refused", "no_database", "not_recognised", "begin", "commit", "rollback"}
  BY <1>7 DEF Refusals
<1>11. QED
  BY <1>6, <1>9, <1>10 DEF Agrees, handler, type

---------------------------------------------------------------------------
(* Every text that comes to run is one: the streams and the line of the    *)
(* console hold tokens, and what is cut from their front is not empty.     *)
InputTyped == input \in Seq(STRING)

LEMMA InWords ==
  ASSUME NEW s \in Seq(STRING)
  PROVE  s \in Seq(Words)
<1>1. \A i \in 1..Len(s) : s[i] \in Words
  BY DEF Words
<1>2. QED
  BY <1>1, IsASeq

LEMMA CommandEnds ==
  ASSUME InputTyped, input # <<>>
  PROVE  CommandEnd(input) \in 1..Len(input)
<1>1. input \in Seq(Words) /\ ";" \in Words
  BY InWords DEF InputTyped, Words, Keywords
<1>2. DOMAIN input = 1..Len(input) /\ Len(input) \in 1..Len(input)
  BY DEF InputTyped
<1>3. Has(input, <<";">>) => First(input, <<";">>) \in DOMAIN input
  BY <1>1, FirstOne
<1>4. QED
  BY <1>2, <1>3 DEF CommandEnd

LEMMA InputStep ==
  ASSUME InputTyped, [Next]_vars
  PROVE  InputTyped'
<1>1. CASE UNCHANGED input
  BY <1>1 DEF InputTyped
<1>2. ASSUME NEW line \in ConsoleLines, TypeAtConsole(line) PROVE InputTyped'
  BY <1>2, ConsoleAssumption DEF TypeAtConsole, InputTyped
<1>3. CASE RunCommand
  <2>1. input # <<>> /\ input' = SubSeq(input, CommandEnd(input) + 1, Len(input))
    BY <1>3 DEF RunCommand
  <2>2. CommandEnd(input) \in 1..Len(input)
    BY <2>1, CommandEnds
  <2>3. QED
    BY <2>1, <2>2, Cut DEF InputTyped
<1>4. ASSUME NEW c \in Clients,
             \/ Connect(c) \/ Receive(c) \/ ReceiveEnd(c) \/ Leave(c)
             \/ \E line \in Lines : TypeLine(c, line)
      PROVE  UNCHANGED input
  BY <1>4 DEF Connect, Receive, ReceiveEnd, Leave, TypeLine
<1>5. CASE Accept \/ Serve \/ HangUp \/ UNCHANGED vars
  BY <1>1, <1>5 DEF Accept, Serve, HangUp, vars
<1>6. QED
  BY <1>1, <1>2, <1>3, <1>4, <1>5 DEF Next, ClientReads

LEMMA TextsTyped ==
  ASSUME ServerInv, InputTyped, NEW text \in NextTexts
  PROVE  text \in Seq(STRING) /\ text # <<>>
<1>1. ASSUME NEW s \in Seq(STRING), NEW n \in 1..Len(s)
      PROVE  SubSeq(s, 1, n) \in Seq(STRING) /\ SubSeq(s, 1, n) # <<>>
  <2>1. SubSeq(s, 1, n) \in Seq(STRING) /\ Len(SubSeq(s, 1, n)) = n
    BY Cut
  <2>2. QED
    BY <2>1
<1>2. CASE served # Nobody /\ \E n \in DOMAIN up[served] : text = SubSeq(up[served], 1, n)
  <2>1. served \in Clients /\ up[served] \in Seq(STRING)
    BY <1>2 DEF ServerInv, TypeOK, Streams
  <2>2. PICK n \in 1..Len(up[served]) : text = SubSeq(up[served], 1, n)
    BY <1>2, <2>1
  <2>3. QED
    BY <1>1, <2>1, <2>2
<1>3. CASE input # <<>> /\ text = SubSeq(input, 1, CommandEnd(input))
  BY <1>1, <1>3, CommandEnds DEF InputTyped
<1>4. QED
  BY <1>2, <1>3 DEF NextTexts

(* For any texts, wherever a read or a semicolon cuts them: what runs on   *)
(* data or tables is what the parser accepted, in a selected database; a   *)
(* text that starts with a blank runs as nothing; the old form of INSERT   *)
(* never runs.                                                             *)
THEOREM Dispatches == Spec => []DispatchAgrees
<1>1. Init => InputTyped
  BY DEF Init, InputTyped
<1>2. InputTyped /\ [Next]_vars => InputTyped'
  BY InputStep
<1>3. ASSUME ServerInv, InputTyped PROVE DispatchAgrees
  <2> SUFFICES ASSUME NEW text \in NextTexts PROVE Agrees(text, Selected(session))
    BY DEF DispatchAgrees
  <2>1. text \in Seq(STRING) /\ text # <<>>
    BY <1>3, TextsTyped
  <2>2. text \in Seq(Words)
    BY <2>1, InWords
  <2>3. Selected(session) \in BOOLEAN
    BY DEF Selected
  <2>4. QED
    BY <2>1, <2>2, <2>3, AgreesAlways
<1>4. QED
  BY <1>1, <1>2, <1>3, Invariant, PTL DEF Spec
=============================================================================
