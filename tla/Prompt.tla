--------------------------------- MODULE Prompt ---------------------------------
(***************************************************************************)
(* What the model is sent.  A run reads the last messages of its           *)
(* conversation, turns them into the turns of a prompt, and calls the      *)
(* provider until the model has no more tools to call; a call the provider *)
(* refuses because of a picture is made once more without pictures.        *)
(***************************************************************************)
EXTENDS Naturals, Sequences, SequencesExt, Picking

CONSTANTS
  PrWindow,    \* messages a run reads (MAX_RECENT_MESSAGES)
  PrMaxLog,    \* bound: messages of the conversation
  PrMaxCalls,  \* bound: completions of the run (MAX_TOOL_ITERATIONS)
  PrKeys       \* providers whose key is configured

ASSUME PrAssumption ==
  /\ PrWindow \in Nat \ {0} /\ PrMaxLog \in Nat /\ PrMaxCalls \in Nat
  /\ PrKeys \subseteq {"openai", "sakana"}

VARIABLES
  prLog,     \* the messages: who sent them and what they can show
  prModel,   \* the provider the agent's model names, and whether its price is known
  prRun,     \* where the run is
  prTrigger, \* the message that started it
  prTurns,   \* the turns after the system message
  prSent,    \* the requests of the completion under way, oldest first
  prCalls,   \* completions so far
  prCost     \* what the run has cost so far: "nothing", "something"

prVars == <<prLog, prModel, prRun, prTrigger, prTurns, prSent, prCalls, prCost>>

\* a text, a transcript or a placeholder; a picture by where its file is; nothing to say
PrSpoken == {"text"}
PrPictures == {"ours", "lost", "theirs", "unresolved"}
PrMessage == [from : {"customer", "us"}, shows : PrSpoken \union PrPictures \union {"blank"}]
PrParts == [msg : 0..PrMaxLog, as : {"text", "image", "note"}]
PrNames == {"call_a", "call_b", "tool_1", "tool_2"}
PrTurn(role, parts, ids) == [role |-> role, parts |-> parts, ids |-> ids]
PrTurnOK(t) ==
  /\ t.role \in {"user", "assistant", "tool"}
  /\ Range(t.parts) \subseteq PrParts /\ Range(t.ids) \subseteq PrNames

PrTypeOK ==
  /\ prLog \in Seq(PrMessage) /\ Len(prLog) <= PrMaxLog
  /\ prModel \in [provider : {"openai", "sakana", "unsupported"}, priced : BOOLEAN]
  /\ prRun \in {"none", "read", "call", "again", "done", "failed"}
  /\ prTrigger \in 0..PrMaxLog
  /\ \A t \in Range(prTurns) : PrTurnOK(t)
  /\ Len(prSent) <= 2 /\ \A r \in Range(prSent) : \A t \in Range(r) : PrTurnOK(t)
  /\ prCalls \in 0..PrMaxCalls /\ prCost \in {"nothing", "something"}

PrInit ==
  /\ prLog = <<>>
  /\ prModel \in [provider : {"openai", "sakana", "unsupported"}, priced : BOOLEAN]
  /\ prRun = "none" /\ prTrigger = 0 /\ prTurns = <<>> /\ prSent = <<>>
  /\ prCalls = 0 /\ prCost = "nothing"

-----------------------------------------------------------------------------
(* The conversation *)

PrArrive(m) ==
  /\ Len(prLog) < PrMaxLog /\ prRun \in {"none", "read"}
  /\ m.from = "us" => m.shows \in {"text", "blank"}  \* our pictures say nothing
  /\ prLog' = Append(prLog, m)
  /\ UNCHANGED <<prModel, prRun, prTrigger, prTurns, prSent, prCalls, prCost>>

\* a redeploy loses a file we host
PrLose(i) ==
  /\ i \in DOMAIN prLog /\ prLog[i].shows = "ours" /\ prRun = "none"
  /\ prLog' = [prLog EXCEPT ![i].shows = "lost"]
  /\ UNCHANGED <<prModel, prRun, prTrigger, prTurns, prSent, prCalls, prCost>>

\* the run is asked for: the customer's last message so far is its trigger
PrStart ==
  /\ prRun = "none"
  /\ \E i \in DOMAIN prLog :
       /\ prLog[i].from = "customer"
       /\ \A j \in DOMAIN prLog : prLog[j].from = "customer" => j <= i
       /\ prTrigger' = i
  /\ prRun' = "read"
  /\ UNCHANGED <<prLog, prModel, prTurns, prSent, prCalls, prCost>>

-----------------------------------------------------------------------------
(* The prompt *)

\* the pictures a run can show: a file of ours that is still there, a link of another host,
\* or what the provider of the channel hands out again, which is then kept
PrResolved(log) ==
  {[i \in DOMAIN log |-> IF i \in found THEN [log[i] EXCEPT !.shows = "ours"] ELSE log[i]] :
     found \in SUBSET {i \in DOMAIN log : /\ i + PrWindow > Len(log)
                                          /\ log[i].shows \in {"lost", "unresolved"}}}

\* the parts of a message in a turn
PrPartsOf(log, i) ==
  CASE log[i].shows = "text" -> <<[msg |-> i, as |-> "text"]>>
    [] log[i].shows \in {"ours", "theirs"} -> <<[msg |-> i, as |-> "image"]>>
    [] log[i].shows \in {"lost", "unresolved"} -> <<[msg |-> i, as |-> "note"]>>
    [] OTHER -> <<>>

PrRole(message) == IF message.from = "customer" THEN "user" ELSE "assistant"

\* messages of one side in a row are one turn, and those with nothing to say are left out
PrAdd(log, turns, i) ==
  LET parts == PrPartsOf(log, i) role == PrRole(log[i]) IN
  IF parts = <<>> THEN turns
  ELSE IF turns # <<>> /\ Last(turns).role = role
       THEN [turns EXCEPT ![Len(turns)].parts = @ \o parts]
       ELSE Append(turns, PrTurn(role, parts, <<>>))

\* the first message of the window
PrFirst(log) == IF Len(log) > PrWindow THEN Len(log) - PrWindow + 1 ELSE 1

\* the turns up to the last message
PrHistory(log) ==
  LET upTo[n \in 0..Len(log)] ==
        IF n < PrFirst(log) THEN <<>> ELSE PrAdd(log, upTo[n - 1], n)
  IN upTo[Len(log)]

\* a prompt that does not end with the customer's turn gets the trigger's once more, or a
\* bare "[continue]"
PrClosed(turns, parts) ==
  IF turns # <<>> /\ Last(turns).role = "user" THEN turns
  ELSE Append(turns, PrTurn("user",
         IF parts = <<>> THEN <<[msg |-> 0, as |-> "text"]>> ELSE parts, <<>>))

PrBuild ==
  /\ prRun = "read"
  /\ \E log \in PrResolved(prLog) :
       /\ prLog' = log
       /\ prTurns' = PrClosed(PrHistory(log), PrPartsOf(log, prTrigger))
  /\ prRun' = "call"
  /\ UNCHANGED <<prModel, prTrigger, prSent, prCalls, prCost>>

-----------------------------------------------------------------------------
(* The calls *)

PrCallable == prModel.provider \in PrKeys

\* an assistant turn with neither text nor tools, or a turn left with nothing, is not sent
PrRequest ==
  Picked(prTurns, {k \in DOMAIN prTurns : prTurns[k].parts # <<>> \/ prTurns[k].ids # <<>>})

PrHasImage(request) == \E t \in Range(request) : \E p \in Range(t.parts) : p.as = "image"

\* every picture becomes a note
PrStripped(request) ==
  LET stripped(part) == IF part.as = "image" THEN [part EXCEPT !.as = "note"] ELSE part
  IN [k \in DOMAIN request |-> [request[k] EXCEPT !.parts = [j \in DOMAIN @ |-> stripped(@[j])]]]

\* the ids of the answer's tool calls: a call without one is numbered
PrIds(answer) ==
  [k \in DOMAIN answer |-> IF answer[k] = "no_id" THEN <<"tool_1", "tool_2">>[k] ELSE answer[k]]

PrAnswers ==
  {<<>>, <<"no_id">>, <<"call_a">>, <<"no_id", "no_id">>, <<"call_a", "no_id">>,
   <<"no_id", "call_b">>, <<"call_a", "call_b">>}

\* what the provider says the call cost, else tokens by the price list; null counts as zero
PrCostOf(told) ==
  IF told = "number" \/ (told = "absent" /\ prModel.priced) THEN "something" ELSE "nothing"

\* the answer ends the run, or is kept with one result for each of its calls
PrAnswered ==
  /\ \E answer \in PrAnswers, told \in {"absent", "null", "number"} :
       /\ prCost' = IF PrCostOf(told) = "something" THEN "something" ELSE prCost
       /\ IF answer = <<>>
          THEN prRun' = "done" /\ UNCHANGED <<prTurns, prSent>>
          ELSE /\ prRun' = "call" /\ prSent' = <<>>
               /\ prTurns' = Append(prTurns, PrTurn("assistant", <<>>, PrIds(answer)))
                             \o [k \in DOMAIN answer |-> PrTurn("tool", <<>>, <<PrIds(answer)[k]>>)]
  /\ UNCHANGED <<prLog, prModel, prTrigger, prCalls>>

\* an unsupported model or a missing key fails the run before any request
PrCall ==
  /\ prRun = "call" /\ prSent = <<>>
  /\ IF prCalls = PrMaxCalls
     THEN prRun' = "done" /\ UNCHANGED <<prSent, prCalls>>
     ELSE /\ prCalls' = prCalls + 1
          /\ IF PrCallable THEN prSent' = <<PrRequest>> /\ UNCHANGED prRun
             ELSE prRun' = "failed" /\ UNCHANGED prSent
  /\ UNCHANGED <<prLog, prModel, prTrigger, prTurns, prCost>>

PrAnswer == prRun = "call" /\ Len(prSent) = 1 /\ PrAnswered

PrRefused(status) ==
  /\ prRun = "call" /\ Len(prSent) = 1
  /\ IF status = 400 /\ PrHasImage(prSent[1])
     THEN prRun' = "again" /\ prSent' = Append(prSent, PrStripped(prSent[1]))
     ELSE prRun' = "failed" /\ UNCHANGED prSent
  /\ UNCHANGED <<prLog, prModel, prTrigger, prTurns, prCalls, prCost>>

PrAnswerAgain == prRun = "again" /\ PrAnswered

PrRefusedAgain ==
  /\ prRun = "again"
  /\ prRun' = "failed"
  /\ UNCHANGED <<prLog, prModel, prTrigger, prTurns, prSent, prCalls, prCost>>

PrNext ==
  \/ \E m \in PrMessage : PrArrive(m)
  \/ \E i \in 1..PrMaxLog : PrLose(i)
  \/ PrStart \/ PrBuild \/ PrCall \/ PrAnswer \/ PrAnswerAgain \/ PrRefusedAgain
  \/ \E status \in {400, 500} : PrRefused(status)

PrSpec == PrInit /\ [][PrNext]_prVars

-----------------------------------------------------------------------------
(* Properties *)

\* the turns the run began with, before any tool
PrOpening ==
  Picked(prTurns, {k \in DOMAIN prTurns : prTurns[k].role # "tool" /\ prTurns[k].ids = <<>>})

\* The prompt alternates between the sides and ends with the customer, with the trigger or
\* something they wrote later, unless the trigger had nothing to say.
PrEndsWithCustomer ==
  prTurns # <<>> =>
    /\ \A k \in 1..(Len(PrOpening) - 1) : PrOpening[k].role # PrOpening[k + 1].role
    /\ Last(PrOpening).role = "user"
    /\ PrPartsOf(prLog, prTrigger) # <<>> =>
         \E p \in Range(Last(PrOpening).parts) : p.msg >= prTrigger

\* Every message of the window that has something to say is in the prompt, in order, and
\* the trigger is the only one that may be there twice.
PrSaysAll ==
  prTurns # <<>> =>
    /\ \A i \in DOMAIN prLog : i + PrWindow > Len(prLog) /\ PrPartsOf(prLog, i) # <<>> =>
         \E t \in Range(PrOpening) : \E p \in Range(t.parts) : p.msg = i
    /\ \A k, l \in DOMAIN PrOpening :
         \A m \in DOMAIN PrOpening[k].parts, n \in DOMAIN PrOpening[l].parts :
           LET later == PrOpening[l].parts[n].msg IN
           (k < l \/ (k = l /\ m < n)) /\ PrOpening[k].parts[m].msg >= later =>
             /\ l = Len(PrOpening) /\ n = Len(PrOpening[l].parts)
             /\ later \in {0, prTrigger}

\* A refused request is sent a second time only to leave its pictures out: the turns are the
\* same ones and none is a picture any more.
PrSecondIsLeaner ==
  Len(prSent) = 2 =>
    /\ PrHasImage(prSent[1]) /\ ~PrHasImage(prSent[2])
    /\ [k \in DOMAIN prSent[1] |-> prSent[1][k].role] = [k \in DOMAIN prSent[2] |-> prSent[2][k].role]

\* In every request each result of a tool answers one call of the turn before it, and each
\* call has its result: a provider refuses anything else.
PrToolsArePaired ==
  \A r \in Range(prSent) : \A k \in DOMAIN r :
    /\ r[k].role = "assistant" => \A n \in DOMAIN r[k].ids :
         k + n \in DOMAIN r /\ r[k + n].role = "tool" /\ r[k + n].ids = <<r[k].ids[n]>>
    /\ \A n, o \in DOMAIN r[k].ids : r[k].ids[n] = r[k].ids[o] => n = o
    /\ r[k].role = "tool" => k > 1 /\ r[k - 1].role \in {"tool", "assistant"}

PrSafe == PrEndsWithCustomer /\ PrSaysAll /\ PrSecondIsLeaner /\ PrToolsArePaired
=============================================================================
