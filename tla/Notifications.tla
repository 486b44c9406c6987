---------------------------- MODULE Notifications ----------------------------
(***************************************************************************)
(* What the operator is shown of approvals, and what is done with the      *)
(* answer: plugin/events.py, and the notification plugin's tailer.js,      *)
(* state.js, decision.js and engine.js.                                    *)
(*                                                                         *)
(* Processes of the runtime save a change first and then emit an event for *)
(* it, each on its own, so events of two processes may be logged in either *)
(* order, and an event may be lost or torn with its process.  The plugin   *)
(* polls the log from a cursor, folds what is new into a view, and saves   *)
(* cursor and view together; the log may be rotated meanwhile, and the     *)
(* plugin may die or fail to write between any two steps.  A decision is   *)
(* taken after such a poll, and written as a file into the inbox.          *)
(***************************************************************************)
EXTENDS Integers, Sequences, FiniteSets, SequencesExt

CONSTANTS
  Asks,        \* approval requests
  Decisions,     \* what may be decided about one
  NoAsk,
  MaxSeq,      \* bound: events in the log
  MaxRotations,\* bound
  MaxOutages,  \* bound: crashes of the plugin and writes of it that fail
  FeedLimit    \* length of the list of recent items (LIMITS)

ASSUME NotificationAssumption ==
  /\ IsFiniteSet(Asks) /\ NoAsk \notin Asks
  /\ Decisions \subseteq {"approved", "rejected"}
  /\ FeedLimit \in Nat \ {0}
  /\ {MaxSeq, MaxRotations, MaxOutages} \subseteq Nat

VARIABLES
  status,     \* approvals.json: what the broker holds of each request
  unsent,     \* changes that are saved and whose event is not yet emitted
  lines,      \* the lines of the event log
  halfLine,   \* the last line has no newline
  file,       \* the file that has the log's name
  rotated,    \* history: numbers of events that rotation took from the log
  missed,     \* history: an event of this request was never logged
  plugin,     \* the engine: what it is at, cursor and view, decision to take
  kept,       \* plugin-state.json: cursor and view
  written,    \* written[a]: decision files for a in the inbox
  answered,   \* requests whose decision file the runtime has a result for
  outages

notificationVars ==
  <<status, unsent, lines, halfLine, file, rotated, missed, plugin, kept, written,
    answered, outages>>

News == [kind : {"requested", "progress"} \cup Decisions, ask : Asks]

Fragment == [seq |-> 0, kind |-> "fragment", ask |-> NoAsk]

EmptyView ==
  [asks |-> [a \in Asks |-> "unknown"], submitted |-> {}, told |-> {},
   feed |-> << >>, applied |-> << >>]

EmptyCursor == [offset |-> 0, lastSeq |-> 0, file |-> 0]

Fresh == [cursor |-> EmptyCursor, view |-> EmptyView]

\* `job` is the request a decision is being taken about.
Down == [at |-> "down", cursor |-> EmptyCursor, view |-> EmptyView, job |-> NoAsk]

View ==
  [asks : [Asks -> {"unknown", "pending"} \cup Decisions], submitted : SUBSET Asks,
   told : SUBSET Asks, feed : Seq(1..MaxSeq), applied : Seq(1..MaxSeq)]

\* Every line is a numbered event, or a fragment, of which each request leaves
\* one at most.
MaxLines == MaxSeq + Cardinality(Asks)

Cursor == [offset : 0..MaxLines, lastSeq : 0..MaxSeq, file : 0..MaxRotations]

NotificationTypeOK ==
  /\ status \in [Asks -> {"none", "pending"} \cup Decisions]
  /\ unsent \subseteq News
  /\ lines \in Seq([seq : 1..MaxSeq, kind : {"requested", "progress"} \cup Decisions,
                    ask : Asks] \cup {Fragment})
  /\ halfLine \in BOOLEAN
  /\ file \in 0..MaxRotations
  /\ rotated \subseteq 1..MaxSeq
  /\ plugin \in [at : {"down", "idle", "saving", "deciding", "submitting"},
                 cursor : Cursor, view : View, job : Asks \cup {NoAsk}]
  /\ kept \in [cursor : Cursor, view : View]
  /\ missed \cup answered \subseteq Asks
  /\ written \in [Asks -> Nat]
  /\ outages \in 0..MaxOutages

NotificationInit ==
  /\ status = [a \in Asks |-> "none"] /\ unsent = {} /\ missed = {}
  /\ lines = << >> /\ halfLine = FALSE /\ file = 0 /\ rotated = {}
  /\ plugin = Down /\ kept = Fresh
  /\ written = [a \in Asks |-> 0] /\ answered = {} /\ outages = 0

runtimeVars == <<status, unsent, missed>>
logVars == <<lines, halfLine, file, rotated>>
pluginVars == <<plugin, kept, written, answered, outages>>

(******************************* The runtime *******************************)

\* ApprovalBroker.request() and resolve() save, release the lock, and only then
\* emit.  Somebody resolves a request that is saved: it need not be announced.
AskApproval(a) ==
  /\ status[a] = "none"
  /\ status' = [status EXCEPT ![a] = "pending"]
  /\ unsent' = unsent \cup {[kind |-> "requested", ask |-> a]}
  /\ UNCHANGED <<missed, logVars, pluginVars>>

Answer(a, say) ==
  /\ status[a] = "pending"
  /\ status' = [status EXCEPT ![a] = say]
  /\ unsent' = unsent \cup {[kind |-> say, ask |-> a]}
  /\ UNCHANGED <<missed, logVars, pluginVars>>

\* The runtime answers from the file the plugin wrote, and records a result.
AnswerFile(a, say) ==
  /\ written[a] > 0 /\ a \notin answered
  /\ answered' = answered \cup {a}
  /\ IF status[a] = "pending"
     THEN /\ status' = [status EXCEPT ![a] = say]
          /\ unsent' = unsent \cup {[kind |-> say, ask |-> a]}
     ELSE UNCHANGED <<status, unsent>>
  /\ UNCHANGED <<missed, logVars, plugin, kept, written, outages>>

\* Progress, attention items, completions and merges: a list of recent ones.
ReportProgress(a) ==
  /\ status[a] = "pending"
  /\ unsent' = unsent \cup {[kind |-> "progress", ask |-> a]}
  /\ UNCHANGED <<status, missed, logVars, pluginVars>>

Readable == {i \in DOMAIN lines : lines[i] # Fragment}

\* JsonlEventSink.emit(): under a lock, numbered after the last readable event.
NextSeq == 1 + (IF Readable = {} THEN 0 ELSE Max({lines[i].seq : i \in Readable}))

Numbered(n) == [seq |-> NextSeq, kind |-> n.kind, ask |-> n.ask]

\* append_jsonl ends a half line before it writes.
Emit(n) ==
  /\ n \in unsent
  /\ NextSeq <= MaxSeq
  /\ lines' = Append(lines, Numbered(n))
  /\ halfLine' = FALSE
  /\ unsent' = unsent \ {n}
  /\ UNCHANGED <<status, missed, file, rotated, pluginVars>>

\* The emitter fails, and its error is swallowed, or its process dies: nothing
\* is logged, or a fragment, or a line without its newline.  Bound: once for
\* each request.
EmitFails(n) ==
  /\ n \in unsent
  /\ n.ask \notin missed
  /\ NextSeq <= MaxSeq
  /\ \/ UNCHANGED <<lines, halfLine>>
     \/ lines' = Append(lines, Fragment) /\ halfLine' = TRUE
     \/ lines' = Append(lines, Numbered(n)) /\ halfLine' = TRUE
  /\ unsent' = unsent \ {n}
  /\ missed' = missed \cup {n.ask}
  /\ UNCHANGED <<status, file, rotated, pluginVars>>

\* Somebody replaces the log by a file with its later lines.  As long as an
\* event is left, the numbers go on.
RotateLog(n) ==
  /\ file < MaxRotations /\ ~halfLine
  /\ \E i \in Readable : i > n
  /\ file' = file + 1
  /\ lines' = SubSeq(lines, n + 1, Len(lines))
  /\ rotated' = rotated \cup {lines[i].seq : i \in Readable \cap 1..n}
  /\ UNCHANGED <<halfLine, runtimeVars, pluginVars>>

(******************************* The tailer ********************************)

\* What is complete: the last line is left until its newline is there.
Complete == IF halfLine THEN Len(lines) - 1 ELSE Len(lines)

\* Mutant of StartOffset: a rotated log is read on from the old position.
OldOffset(c) == c.offset

\* Where reading starts: over, when the file is another one or is too short.
StartOffset(c) == IF c.file # file \/ Complete < c.offset THEN 0 ELSE c.offset

\* readNewEvents: of the next n lines those that are events and are numbered
\* after the last one.  (Numbers are written in order, and a number stands for
\* the event's id.)
Accept(lastSeq, accepted, e) ==
  IF e # Fragment /\ e.seq > lastSeq THEN Append(accepted, e) ELSE accepted

NewOf(lastSeq, w) == FoldLeft(LAMBDA accepted, e : Accept(lastSeq, accepted, e), << >>, w)

NewAmong(c, n) ==
  NewOf(c.lastSeq, SubSeq(lines, StartOffset(c) + 1, StartOffset(c) + n))

CursorAfter(c, n) ==
  [offset |-> StartOffset(c) + n, file |-> file,
   lastSeq |-> IF NewAmong(c, n) = << >> THEN c.lastSeq ELSE Last(NewAmong(c, n)).seq]

(******************************** The view *********************************)

\* Mutant of StatusAfter: an announcement overwrites what is known.
StatusOf(s, e) ==
  IF e.kind = "requested" THEN "pending" ELSE IF e.kind = "progress" THEN s ELSE e.kind

\* An approval that is known is not announced again; an answer to one that is
\* not known is kept.
StatusAfter(s, e) ==
  CASE e.kind = "progress" -> s
    [] e.kind = "requested" -> IF s = "unknown" THEN "pending" ELSE s
    [] OTHER -> e.kind

Shortened(feed) == SubSeq(feed, IF Len(feed) > FeedLimit THEN 2 ELSE 1, Len(feed))

\* applyEvent
ApplyEvent(v, e) ==
  [v EXCEPT !.asks[e.ask] = StatusAfter(@, e),
            !.feed = IF e.kind = "progress" THEN Shortened(Append(@, e.seq)) ELSE @,
            !.applied = Append(@, e.seq)]

\* refreshRuntimeResults: what the runtime did with what was submitted here.
WithResults(v) == [v EXCEPT !.told = v.submitted \cap answered]

(******************************* The engine ********************************)

\* load()
StartPlugin ==
  /\ plugin.at = "down"
  /\ plugin' = [at |-> "idle", cursor |-> kept.cursor, view |-> kept.view, job |-> NoAsk]
  /\ UNCHANGED <<runtimeVars, logVars, kept, written, answered, outages>>

\* A state file that cannot be read is set aside: the view is built again from
\* the log, and what was submitted is forgotten.
ForgetState ==
  /\ plugin.at = "down"
  /\ outages < MaxOutages /\ outages' = outages + 1
  /\ kept' = Fresh
  /\ UNCHANGED <<runtimeVars, logVars, plugin, written, answered>>

\* What follows a poll: the decision it was made for, if any.
AfterPoll(job) == IF job = NoAsk THEN "idle" ELSE "deciding"

\* pollOnceInner: read a part of what is new, fold it in, and see the results.
\* It is saved only when something changed.
PollFor(job) ==
  /\ plugin.at = "idle"
  /\ \E n \in 0..(Complete - StartOffset(plugin.cursor)) :
       LET c == CursorAfter(plugin.cursor, n)
           v == WithResults(FoldLeft(ApplyEvent, plugin.view, NewAmong(plugin.cursor, n)))
       IN
       /\ n = 0 => Complete = StartOffset(plugin.cursor)
       /\ <<c, v>> # <<plugin.cursor, plugin.view>> \/ job # NoAsk
       /\ plugin' =
            [at |-> IF <<c, v>> # <<plugin.cursor, plugin.view>> THEN "saving"
                    ELSE AfterPoll(job),
             cursor |-> c, view |-> v, job |-> job]
  /\ UNCHANGED <<runtimeVars, logVars, kept, written, answered, outages>>

\* The timer's poll, or one before something is shown.
Poll == PollFor(NoAsk)

\* decide(): the operator answers; the engine polls first.
TakeDecision(a) == PollFor(a)

\* The engine goes on, with what it has in memory.
GoesOn(at, job) ==
  plugin' = [at |-> at, cursor |-> plugin.cursor, view |-> plugin.view, job |-> job]

\* persist(): cursor and view replace the file together.
Persist ==
  /\ plugin.at \in {"saving", "submitting"}
  /\ kept' = [cursor |-> plugin.cursor, view |-> plugin.view]
  /\ IF plugin.at = "saving" THEN GoesOn(AfterPoll(plugin.job), plugin.job)
     ELSE GoesOn("idle", NoAsk)
  /\ UNCHANGED <<runtimeVars, logVars, written, answered, outages>>

\* buildDecision: the request is pending, as far as the view knows, and nothing
\* was submitted for it.
MayDecide(a) == plugin.view.asks[a] = "pending" /\ a \notin plugin.view.submitted

\* writeDecisionFile, and then the note that it was written.
Submit ==
  LET a == plugin.job IN
  /\ plugin.at = "deciding" /\ MayDecide(a)
  /\ written' = [written EXCEPT ![a] = @ + 1]
  /\ plugin' = [at |-> "submitting", cursor |-> plugin.cursor, job |-> a,
                view |-> [plugin.view EXCEPT !.submitted = @ \cup {a}]]
  /\ UNCHANGED <<runtimeVars, logVars, kept, answered, outages>>

\* DecisionError, also for a request whose time is over, a session or a plan
\* that is not the request's, or an inbox that cannot be written.
Refuse ==
  /\ plugin.at = "deciding"
  /\ GoesOn("idle", NoAsk)
  /\ UNCHANGED <<runtimeVars, logVars, kept, written, answered, outages>>

\* persist() throws.
PersistFails ==
  /\ plugin.at \in {"saving", "submitting"}
  /\ outages < MaxOutages /\ outages' = outages + 1
  /\ GoesOn("idle", NoAsk)
  /\ UNCHANGED <<runtimeVars, logVars, kept, written, answered>>

PluginDies ==
  /\ plugin.at # "down"
  /\ outages < MaxOutages /\ outages' = outages + 1
  /\ plugin' = Down
  /\ UNCHANGED <<runtimeVars, logVars, kept, written, answered>>

(**************************** The specification ****************************)

RuntimeStep ==
  \/ \E a \in Asks :
       \/ AskApproval(a) \/ ReportProgress(a)
       \/ \E say \in Decisions : Answer(a, say) \/ AnswerFile(a, say)
  \/ \E n \in unsent : Emit(n) \/ EmitFails(n)
  \/ \E n \in 1..Len(lines) : RotateLog(n)

EngineStep ==
  \/ Poll \/ Persist \/ Submit \/ Refuse
  \/ \E a \in Asks : TakeDecision(a)

NotificationNext == RuntimeStep \/ EngineStep \/ StartPlugin \/ ForgetState \/ PersistFails \/ PluginDies

NotificationSpec == NotificationInit /\ [][NotificationNext]_notificationVars

(******************************* Properties ********************************)

IncreasingSeqs(s) == \A i, j \in DOMAIN s : i < j => s[i] < s[j]

\* In memory and on disk the view reflects each event up to the cursor once and
\* in order, save what rotation took away first: torn lines, polls of a part,
\* rotation, crashes and failed writes neither repeat an event nor skip one
\* (integrations/openclaw-plugin/README.md: "re read from the start without
\* replaying").
ViewFollowsLog ==
  \A s \in {plugin, kept} :
    /\ IncreasingSeqs(s.view.applied)
    /\ \A q \in 1..s.cursor.lastSeq : q \in Range(s.view.applied) \cup rotated

\* The plugin has read all there is, and nothing about `a` was lost on its way.
CaughtUp(a) ==
  /\ plugin.at # "down"
  /\ plugin.cursor.file = file /\ plugin.cursor.offset = Complete /\ ~halfLine
  /\ a \notin missed /\ rotated = {}
  /\ \A n \in unsent : n.ask # a

\* What the operator is then shown of a request is what the broker holds of it,
\* though two processes logged its announcement and its answer in either order.
ViewAgrees ==
  \A a \in Asks :
    CaughtUp(a) =>
      plugin.view.asks[a] = IF status[a] = "none" THEN "unknown" ELSE status[a]

==============================================================================
