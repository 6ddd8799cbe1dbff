------------------------------- MODULE Server -------------------------------
(***************************************************************************)
(* network/server.c and network/client.c over execute_sql, and the console *)
(* of main.c: who runs which text in the one session of the process.       *)
(*                                                                         *)
(* A connection is a stream each way: a read returns any part of what is   *)
(* there, from the front.  The server takes one read for one statement;    *)
(* the client takes one read for the answer.  The session (an open         *)
(* transaction, a selected database) belongs to the process: `tx' and `db' *)
(* are who opened and who selected it.  The databases that lines select    *)
(* exist.  Answers and lines are shorter than the buffers.                 *)
(***************************************************************************)
EXTENDS SqlDispatch, FiniteSetsExt

CONSTANTS
  Clients,
  Lines,          \* what users type in clients, the end of the line included
  ConsoleLines,   \* and at the console
  MaxLines,       \* bound: lines all users type
  MaxTorn         \* bound: reads of a connection that end inside a write

ASSUME BoundsAssumption == MaxLines \in Nat /\ MaxTorn \in Nat

Nobody == "nobody"

Console == "console"

ASSUME UsersAssumption == Clients \cap {Nobody, Console} = {}

\* As fgets gives it, a line ends with the only end of a line it has.
ASSUME LinesAssumption ==
  \A line \in Lines :
    /\ line \in Seq(STRING) /\ line # <<>>
    /\ \A i \in DOMAIN line : line[i] = "nl" <=> i = Len(line)

ASSUME ConsoleAssumption == \A line \in ConsoleLines : line \in Seq(STRING)

VARIABLES
  mode,       \* was the process started with --server?
  alive,      \* the server process
  queue,      \* connections the server has not accepted
  served,     \* `client' of server_start
  client,     \* [Clients -> "out", "ready", "waiting" or "gone"]
  closed,     \* connections the server has closed
  up,         \* [Clients -> tokens on their way to the server]
  down,       \* [Clients -> parts of answers on their way to the client]
  input,      \* the rest of the console line that is being run
  session,    \* [tx, db]
  typed,      \* ghost: [Clients -> lines], Console too
  torn,       \* ghost: [Clients -> how many reads have ended inside a write]
  executed,   \* ghost: [Clients -> texts], up to such a read
  printed     \* ghost: [Clients -> the parts each read gave], up to such a read

connection == <<queue, served, client, closed, up, down>>
ghosts == <<typed, executed, printed, torn>>
vars == <<mode, alive, connection, input, session, ghosts>>

Users == Clients \cup {Console}

TypeOK ==
  /\ mode \in {"server", "console"}
  /\ alive \in BOOLEAN
  /\ queue \in Seq(Clients) /\ IsInjective(queue)
  /\ served \in Clients \cup {Nobody}
  /\ served \notin ToSet(queue)
  /\ client \in [Clients -> {"out", "ready", "waiting", "gone"}]
  /\ closed \subseteq Clients /\ closed \cap (ToSet(queue) \cup {served}) = {}
  /\ { c \in Clients : client[c] # "out" } = (ToSet(queue) \cup {served} \cup closed) \ {Nobody}
  /\ \A c \in Clients : \A i \in DOMAIN down[c] : down[c][i] \in (1..(Len(executed[c]) + 1)) \X {1, 2}
  /\ session \in [tx : Users \cup {Nobody}, db : Users \cup {Nobody}]
  /\ \A u \in Users : typed[u] \in Seq(Lines \cup ConsoleLines)
  /\ torn \in [Clients -> 0..MaxTorn]

Init ==
  /\ mode \in {"server", "console"}
  /\ alive = TRUE
  /\ queue = <<>> /\ served = Nobody
  /\ client = [c \in Clients |-> "out"]
  /\ closed = {}
  /\ up = [c \in Clients |-> <<>>] /\ down = [c \in Clients |-> <<>>]
  /\ input = <<>>
  /\ session = [tx |-> Nobody, db |-> Nobody]
  /\ typed = [u \in Users |-> <<>>]
  /\ executed = [c \in Clients |-> <<>>] /\ printed = [c \in Clients |-> <<>>]
  /\ torn = [c \in Clients |-> 0]

---------------------------------------------------------------------------
(* execute_sql in the session.                                             *)

Selected(s) == s.db # Nobody

SessionAfter(s, handler, who) ==
  [tx |-> CASE handler = "begin"                   -> who
            [] handler \in {"commit", "rollback"}  -> Nobody
            [] OTHER                               -> s.tx,
   db |-> CASE handler = "use_database"            -> who
            [] handler = "quit_database"           -> Nobody
            [] OTHER                               -> s.db]

Runs(text, who) ==
  session' = SessionAfter(session, Handler(text, Selected(session)), who)

\* A read ends where a write did, or inside it.
ReadUpTo(c, whole) == IF whole THEN UNCHANGED torn
                      ELSE torn[c] < MaxTorn /\ torn' = [torn EXCEPT ![c] = @ + 1]

---------------------------------------------------------------------------
(* client.c                                                                *)

Connect(c) ==
  /\ mode = "server" /\ alive
  /\ client[c] = "out"
  /\ client' = [client EXCEPT ![c] = "ready"]
  /\ queue' = Append(queue, c)
  /\ UNCHANGED <<mode, alive, input, served, closed, up, down, session, ghosts>>

\* Bound.
LinesInBound == MapThenSumSet(LAMBDA u : Len(typed[u]), Users) < MaxLines

\* Faulty: a client does not wait for the answer.
MayTypeAhead(c) == client[c] \in {"ready", "waiting"}

MayType(c) == client[c] = "ready"

\* What is written to a closed connection is lost.
TypeLine(c, line) ==
  /\ MayType(c)
  /\ LinesInBound
  /\ typed' = [typed EXCEPT ![c] = Append(@, line)]
  /\ up' = IF c \in closed \/ ~alive THEN up ELSE [up EXCEPT ![c] = @ \o line]
  /\ client' = [client EXCEPT ![c] = "waiting"]
  /\ UNCHANGED <<mode, alive, input, queue, served, closed, down, session, executed, printed, torn>>

\* The client leaves when the line it typed was EXIT, in capitals.
Receive(c) ==
  /\ client[c] = "waiting"
  /\ \E n \in 1..Len(down[c]) :
       /\ down' = [down EXCEPT ![c] = SubSeq(@, n + 1, Len(@))]
       /\ ReadUpTo(c, down[c][n][2] = 2)
       /\ printed' = IF torn'[c] > 0 THEN printed
                     ELSE [printed EXCEPT ![c] = Append(@, SubSeq(down[c], 1, n))]
  /\ client' = [client EXCEPT ![c] = IF Last(typed[c])[1] = "EXIT" THEN "gone" ELSE "ready"]
  /\ UNCHANGED <<mode, alive, input, queue, served, closed, up, session, typed, executed>>

\* `n <= 0': the server has closed the connection; when it did so with
\* something unread, the reset may overtake the last answer.
ReceiveEnd(c) ==
  /\ client[c] = "waiting"
  /\ c \in closed \/ ~alive
  /\ down[c] = <<>> \/ up[c] # <<>>
  /\ client' = [client EXCEPT ![c] = "gone"]
  /\ UNCHANGED <<mode, alive, input, queue, served, closed, up, down, session, ghosts>>

\* The end of the input, or of the client's process.
Leave(c) ==
  /\ client[c] \in {"ready", "waiting"}
  /\ client' = [client EXCEPT ![c] = "gone"]
  /\ UNCHANGED <<mode, alive, input, queue, served, closed, up, down, session, ghosts>>

---------------------------------------------------------------------------
(* server.c                                                                *)

\* Faulty: a client is accepted beside the one that is served.
MayAcceptAlways == TRUE

MayAccept == served = Nobody

Accept ==
  /\ alive /\ MayAccept
  /\ queue # <<>>
  /\ served' = Head(queue)
  /\ queue' = Tail(queue)
  /\ UNCHANGED <<mode, alive, input, client, closed, up, down, session, ghosts>>

\* Faulty: nothing is sent for a statement that has printed nothing.
AnswerOfOutput(c, n, handler) ==
  IF handler \in {"delete_where_id", "delete_all"} THEN <<>> ELSE << <<n, 1>>, <<n, 2>> >>

\* The output of the statement, or "OK: ..." when there is none.
Answer(c, n, handler) == << <<n, 1>>, <<n, 2>> >>

\* A write to a client that has gone is lost, or kills the server: nothing
\* keeps SIGPIPE from it.
Sends(c, answer) ==
  IF client[c] # "gone" THEN down' = [down EXCEPT ![c] = @ \o answer] /\ UNCHANGED alive
  ELSE UNCHANGED down /\ alive' \in BOOLEAN

\* A read, of anything that is there.
Reads(c, n) == up' = [up EXCEPT ![c] = SubSeq(@, n + 1, Len(@))]

\* One turn of the inner loop: a read, and its text run as a statement.
Serve ==
  /\ alive
  /\ \E c \in {served} \cap Clients : \E n \in 1..Len(up[c]) :
       LET text   == SubSeq(up[c], 1, n)
           number == Len(executed[c]) + 1
       IN /\ Reads(c, n)
          /\ ReadUpTo(c, up[c][n] = "nl")
          /\ executed' = IF torn'[c] > 0 THEN executed ELSE [executed EXCEPT ![c] = Append(@, text)]
          /\ IF IsPrefix(<<"EXIT">>, Upper(text))
             THEN /\ closed' = closed \cup {c} /\ served' = Nobody
                  /\ Sends(c, << <<number, 1>>, <<number, 2>> >>)
                  /\ UNCHANGED session
             ELSE /\ Runs(text, c)
                  /\ Sends(c, Answer(c, number, Handler(text, Selected(session))))
                  /\ UNCHANGED <<closed, served>>
  /\ UNCHANGED <<mode, input, queue, client, typed, printed>>

\* Faulty: the end of the stream is taken for an empty read.
ReadFails(c) == client[c] = "gone" /\ up[c] # <<>>

\* `n <= 0': the client has gone; a reset may overtake its last line.
ReadEnds(c) == client[c] = "gone"

HangUp ==
  /\ alive
  /\ served # Nobody /\ ReadEnds(served)
  /\ closed' = closed \cup {served}
  /\ served' = Nobody
  /\ UNCHANGED <<mode, alive, input, queue, client, up, down, session, ghosts>>

---------------------------------------------------------------------------
(* main.c                                                                  *)

\* The loop of the console: EXIT and HELP are taken by their first letters.
TypeAtConsole(line) ==
  /\ mode = "console"
  /\ LinesInBound
  /\ input = <<>>
  /\ Upper(line)[1] \notin {"EXIT", "HELP"}
  /\ typed' = [typed EXCEPT ![Console] = Append(@, line)]
  /\ input' = line
  /\ UNCHANGED <<mode, alive, connection, session, executed, printed, torn>>

\* process_input_commands, one command of the line.
RunCommand ==
  /\ input # <<>>
  /\ LET text == SubSeq(input, 1, CommandEnd(input))
     IN IF IsCommand(text) THEN Runs(text, Console) ELSE UNCHANGED session
  /\ input' = SubSeq(input, CommandEnd(input) + 1, Len(input))
  /\ UNCHANGED <<mode, alive, connection, ghosts>>

---------------------------------------------------------------------------
ClientReads(c) == Receive(c) \/ ReceiveEnd(c)

Next ==
  \/ \E c \in Clients : \/ Connect(c) \/ ClientReads(c) \/ Leave(c)
                        \/ \E line \in Lines : TypeLine(c, line)
  \/ Accept \/ Serve \/ HangUp
  \/ \E line \in ConsoleLines : TypeAtConsole(line)
  \/ RunCommand

\* Only Serve shortens what is on its way up.
ServerReads == alive /\ \E c \in {served} \cap Clients : \E n \in 1..Len(up[c]) : Reads(c, n)

\* The loops of the server and of a waiting client go on while the system
\* lets them; users need not type, connect or leave.
Spec ==
  /\ Init /\ [][Next]_vars
  /\ WF_vars(Accept) /\ WF_up(ServerReads) /\ WF_vars(HangUp)
  /\ \A c \in Clients : WF_vars(ClientReads(c))

---------------------------------------------------------------------------
\* Texts the server may read next, and the next command of a console line.
NextTexts ==
  LET command == SubSeq(input, 1, CommandEnd(input))
  IN (IF served = Nobody THEN {} ELSE { SubSeq(up[served], 1, n) : n \in DOMAIN up[served] })
       \cup (IF input # <<>> /\ IsCommand(command) THEN {command} ELSE {})

HandlersOf(type) ==
  CASE type = "begin"    -> {"begin"}
    [] type = "commit"   -> {"commit"}
    [] type = "rollback" -> {"rollback"}
    [] type = "drop"     -> {"drop_table"}
    [] type = "create"   -> {"create_table"}
    [] type = "insert"   -> {"insert"}
    [] type = "select"   -> {"select", "select_where_id", "join"}
    [] type = "update"   -> {"update", "bad_update"}
    [] type = "delete"   -> {"delete_where_id", "delete_all"}
    [] OTHER             -> {type}

QuickHandlers == {"create_database", "drop_database", "use_database", "show_databases",
                  "quit_database", "help"}

Agrees(text, selected) ==
  LET type    == parser_parse(text)
      handler == Handler(text, selected)
  IN /\ \/ handler \in QuickHandlers \cup HandlersOf(type)
        \/ handler \in {"no_database", "not_recognised"} /\ type # "refused"
     /\ selected \/ handler \in QuickHandlers \cup
          {"refused", "no_database", "not_recognised", "begin", "commit", "rollback"}
     /\ text[1] \in Blank => handler \in {"refused", "not_recognised"}

(* Of any text that comes to run, the type the parser finds and the        *)
(* handler the executor runs agree: a statement on data or tables runs     *)
(* only as what the parser accepted it for and in a selected database, a   *)
(* text that starts with a blank (the second command of a console line)    *)
(* runs as nothing, and the branch for the old form of INSERT never runs.  *)
DispatchAgrees == \A text \in NextTexts : Agrees(text, Selected(session))

(* A statement with an id condition spelled `WHERE id = n' is not run on   *)
(* all rows, wherever a read cuts the text after the digits, and whatever  *)
(* follows them.  Excepted is what the parser takes for a condition and    *)
(* the executor does not: after a `where' in lower case (two lines of the  *)
(* instance) the statement does run on all rows; so it does, and no line   *)
(* of the instance has it, with a condition on something else or with a    *)
(* word between the name of the table and WHERE.                           *)
ConditionKept ==
  \A text \in NextTexts :
    Handler(text, Selected(session)) \in {"delete_all", "select"} =>
      ~\E d \in Digits : Has(text, <<"WHERE", "sp", "id=", d>>)

(* As long as every read of a connection ends where a write did, its lines *)
(* are executed as they were typed and in their order, and what the client *)
(* prints after a line is the answer to that line.                         *)
AnswersMatch ==
  \A c \in Clients : torn[c] = 0 =>
    /\ IsPrefix(executed[c], typed[c])
    /\ \A i \in DOMAIN printed[c] : printed[c][i] = << <<i, 1>>, <<i, 2>> >>

(* A transaction or a selected database outlives its client and passes to  *)
(* the next one, but no client's statement runs in those of another that   *)
(* is still connected.                                                     *)
SessionHasOneUser ==
  \A owner \in {session.tx, session.db} \cap Clients :
    served \in {owner, Nobody} \/ owner \in closed

(* A client that the server has accepted does not wait for ever: whatever  *)
(* the reads cut its line into, an answer or the end comes.                *)
Answered == \A c \in Clients : served = c /\ client[c] = "waiting" ~> client[c] # "waiting"

(* A client that has gone does not keep the others from the server.        *)
ServerMovesOn ==
  \A c \in Clients : served = c /\ client[c] = "gone" ~> served # c \/ ~alive
=============================================================================
