------------------------------ MODULE Pipeline ------------------------------
(***************************************************************************)
(* One dispute from the webhook to the bank (pipeline.py).  A handler runs *)
(* under the server's lock, so at most one is in flight; it is cut into    *)
(* steps at every call that leaves the process (model, CRM, Slack,         *)
(* Postgres), because that is where it can be slow, fail or die.  hpc is   *)
(* the step the handler takes next.                                        *)
(***************************************************************************)
EXTENDS Ledger, Sequences

CONSTANTS
  DeadSeams,   \* model calls that may raise LlmUnavailable
  BadSeams,    \* model calls that may raise anything else
  PortErrors   \* how a CRM or Slack call may raise: "refused" before it took
               \* effect, "lost" after it did

Seams == {"confirm", "draft", "judge", "diff"}

ASSUME FaultsAssumption == /\ DeadSeams \subseteq Seams /\ BadSeams \subseteq Seams
                           /\ PortErrors \subseteq {"refused", "lost"}

HandlerPoints == {"idle", "confirm", "safety", "draft", "check", "card",
                  "surface", "escalate", "fail", "approving", "rejecting",
                  "diff", "editing", "acting", "note", "settle", "resolve"}

VARIABLES
  hpc,      \* what the handler in flight does next
  hrun,     \* the run it works on
  harg,     \* the text it files, or the reason it escalates under
  asked,    \* the answers people gave on a run's card
  cards,    \* cards delivered to the merchant, per run
  filed,    \* texts written on the order in the CRM, per run
  posts     \* reasons posted to the review channel, per run

handlerVars == <<hpc, hrun, harg>>
worldVars   == <<asked, cards, filed, posts>>

PipelineTypeOK ==
  /\ hpc \in HandlerPoints
  /\ hrun \in RunIds \cup {0}
  /\ harg \in Texts \cup EscalationReasons \cup {"none"}
  /\ asked \in [RunIds -> SUBSET Answers]
  /\ cards \in [RunIds -> Nat]
  /\ filed \in [RunIds -> Seq(Texts)]
  /\ posts \in [RunIds -> SUBSET EscalationReasons]

PipelineInit ==
  /\ hpc = "idle" /\ hrun = 0 /\ harg = "none"
  /\ asked = [r \in RunIds |-> {}]
  /\ cards = [r \in RunIds |-> 0]
  /\ filed = [r \in RunIds |-> <<>>]
  /\ posts = [r \in RunIds |-> {}]

-----------------------------------------------------------------------------
At(point)       == hpc = point
Goto(point)     == hpc' = point /\ UNCHANGED <<hrun, harg>>
Begin(point, r, arg) == /\ At("idle")
                        /\ hpc' = point /\ hrun' = r /\ harg' = arg
Finish == hpc' = "idle" /\ hrun' = 0 /\ harg' = "none"
Raise  == Finish   \* the exception leaves the handler

RestOfLedger == <<byIdem, done, outcome, dbOutcome, lessons, nextId>>

\* run.transition(to), then on to the next step: an illegal edge raises.
Transition(to, next) ==
  /\ IF Moves(hrun, to)
       THEN SetState(hrun, to) /\ Goto(next)
       ELSE Raise /\ UNCHANGED mem
  /\ UNCHANGED <<db, RestOfLedger, worldVars>>

\* run.transition(to) and ledger.save(run): the end of a handler.
TransitionAndSave(to) ==
  /\ IF Moves(hrun, to)
       THEN SetState(hrun, to) /\ Save(hrun)
       ELSE UNCHANGED <<mem, db>>
  /\ Finish
  /\ UNCHANGED <<RestOfLedger, worldVars>>

EscalateWith(reason) ==
  /\ hpc' = "escalate" /\ harg' = reason
  /\ UNCHANGED <<hrun, ledgerVars, worldVars>>

-----------------------------------------------------------------------------
(* handle_event: webhook to gate.  A webhook with an uncovered reason code *)
(* or with an indexed key returns without touching anything.               *)

Deliver(k) ==
  /\ Begin("confirm", nextId, "none")
  /\ Insert(k)
  /\ UNCHANGED worldVars

\* The model says it is a dispute ...
Confirm == At("confirm") /\ Goto("safety") /\ UNCHANGED <<ledgerVars, worldVars>>

\* ... or not; or the policy gate finds a reason to hold back.
Suppress == (At("confirm") \/ At("safety")) /\ TransitionAndSave("suppressed")

PassSafety == At("safety") /\ Transition("running", "draft")

Draft == At("draft") /\ Transition("drafted", "check")

PassChecks == At("check") /\ Transition("checked", "card")

\* A layer-1 failure or a drafter that asks for help; a low judge score.
FailChecks == At("check") /\ \E why \in {"layer1", "judge"} : EscalateWith(why)

\* How a call of the model may go wrong: an outage, a refusal, a cut-off answer
\* are LlmUnavailable; a request refused as bad, an answer that is no JSON are not.
_call(seam) ==
  {ends \in {"unavailable", "raises"} :
     seam \in IF ends = "unavailable" THEN DeadSeams ELSE BadSeams}

\* The call a handler makes in these steps.
SeamAt == [confirm |-> "confirm", draft |-> "draft", check |-> "judge", diff |-> "diff"]

\* LlmUnavailable, caught around confirm_mention and around _draft_and_gate.
ModelDies ==
  /\ hpc \in DOMAIN SeamAt \ {"diff"} /\ "unavailable" \in _call(SeamAt[hpc])
  /\ EscalateWith(IF At("confirm") THEN "llm_unavailable_at_confirm" ELSE "llm_unavailable")

\* Nothing around edit() catches it, and nothing anywhere the other errors.
ModelRaises ==
  /\ hpc \in DOMAIN SeamAt
  /\ "raises" \in _call(SeamAt[hpc]) \/ (At("diff") /\ "unavailable" \in _call("diff"))
  /\ Raise /\ UNCHANGED <<ledgerVars, worldVars>>

PostCard ==
  /\ At("card")
  /\ cards' = IF Fires(hrun, "slack_post")
                THEN [cards EXCEPT ![hrun] = @ + 1] ELSE cards
  /\ MarkDone(hrun, "slack_post")
  /\ Goto("surface")
  /\ UNCHANGED <<mem, byIdem, db, outcome, dbOutcome, lessons, nextId,
                 asked, filed, posts>>

Surface == At("surface") /\ TransitionAndSave("awaiting_gate")

\* _escalate.  Its AWAITING_GATE branch is never reached: every caller runs
\* before the card is surfaced.
PostEscalation ==
  /\ At("escalate")
  /\ posts' = IF Fires(hrun, harg)
                THEN [posts EXCEPT ![hrun] = @ \cup {harg}] ELSE posts
  /\ MarkDone(hrun, harg)
  /\ Goto("fail")
  /\ UNCHANGED <<mem, byIdem, db, outcome, dbOutcome, lessons, nextId,
                 asked, cards, filed>>

Fail == At("fail") /\ TransitionAndSave("failed")

-----------------------------------------------------------------------------
(* The gate.  The queue, the thread and Slack all look the run up and      *)
(* refuse it unless it is awaiting_gate; record_gate refuses a second      *)
(* stamp.                                                                  *)

Stamp(r, action) == mem' = [mem EXCEPT ![r].gate = action]

\* Mutant of Answer: record_gate accepts a second stamp.
AnswerAgain(r, action, point, text) ==
  /\ mem[r].state = "awaiting_gate"
  /\ Begin(point, r, text)
  /\ Stamp(r, action)
  /\ asked' = [asked EXCEPT ![r] = @ \cup {action}]
  /\ UNCHANGED <<db, RestOfLedger, cards, filed, posts>>

Answer(r, action, point, text) ==
  /\ mem[r].state = "awaiting_gate"
  /\ mem[r].gate = "none"
  /\ Begin(point, r, text)
  /\ Stamp(r, action)
  /\ asked' = [asked EXCEPT ![r] = @ \cup {action}]
  /\ UNCHANGED <<db, RestOfLedger, cards, filed, posts>>

\* Mutant of Edit: the original text is filed.
EditFilesDraft(r) == Answer(r, "edit", "diff", "draft")

\* Mutant of Reject: the dismissed card goes down the approve path.
RejectApproves(r) == Answer(r, "reject", "approving", "draft")

Approve(r) == Answer(r, "approve", "approving", "draft")
Edit(r)    == Answer(r, "edit", "diff", "edited")
Reject(r)  == Answer(r, "reject", "rejecting", "none")

Approved == At("approving") /\ Transition("approved", "acting")
Rejected == At("rejecting") /\ TransitionAndSave("rejected")

\* semantic_diff, then the style note is appended.
Diff ==
  /\ At("diff")
  /\ lessons' = lessons \cup {hrun}
  /\ Goto("editing")
  /\ UNCHANGED <<mem, byIdem, db, done, outcome, dbOutcome, nextId, worldVars>>

Edited == At("editing") /\ Transition("edited", "acting")

Act == At("acting") /\ Transition("acting", "note")

\* Mutant of FileNote: the effect table is not consulted.
FileNoteDirectly ==
  /\ At("note")
  /\ filed' = [filed EXCEPT ![hrun] = Append(@, harg)]
  /\ MarkDone(hrun, "crm_note")
  /\ Goto("settle")
  /\ UNCHANGED <<mem, byIdem, db, outcome, dbOutcome, lessons, nextId,
                 asked, cards, posts>>

FileNote ==
  /\ At("note")
  /\ filed' = IF Fires(hrun, "crm_note")
                THEN [filed EXCEPT ![hrun] = Append(@, harg)] ELSE filed
  /\ MarkDone(hrun, "crm_note")
  /\ Goto("settle")
  /\ UNCHANGED <<mem, byIdem, db, outcome, dbOutcome, lessons, nextId,
                 asked, cards, posts>>

Settle == At("settle") /\ TransitionAndSave("acted")

-----------------------------------------------------------------------------
\* record_resolution: the bank settles a dispute, whatever its run is doing.
RecordResolution(r) ==
  /\ InMemory(r)
  /\ At("idle")
  /\ AppendOutcome(r)
  /\ IF InTable(r) THEN Begin("resolve", r, "none") ELSE UNCHANGED handlerVars
  /\ UNCHANGED <<mem, byIdem, db, done, lessons, nextId, worldVars>>

Resolve ==
  /\ At("resolve")
  /\ IF mem[hrun].state = "acted"
       THEN TransitionAndSave("resolved")
       ELSE Finish /\ UNCHANGED <<ledgerVars, worldVars>>

-----------------------------------------------------------------------------
(* The outside misbehaves: a CRM or Slack call raises and the handler dies *)
(* where it stands.  An effect already 'done' makes no call.               *)

CallKind == [card |-> "slack_post", note |-> "crm_note", escalate |-> harg]

CallingOut == hpc \in DOMAIN CallKind /\ Fires(hrun, CallKind[hpc])

PortRefuses ==
  /\ "refused" \in PortErrors
  /\ At("safety") \/ At("draft") \/ CallingOut
  /\ Raise /\ UNCHANGED <<ledgerVars, worldVars>>

\* Mutant of PortLoses: a lost reply is retried on the spot.
PortLosesRetries ==
  /\ "lost" \in PortErrors
  /\ CallingOut
  /\ cards' = IF At("card") THEN [cards EXCEPT ![hrun] = @ + 1] ELSE cards
  /\ UNCHANGED <<ledgerVars, handlerVars, asked, filed, posts>>

\* The call took effect and its reply did not come back.
PortLoses ==
  /\ "lost" \in PortErrors
  /\ CallingOut
  /\ cards' = IF At("card") THEN [cards EXCEPT ![hrun] = @ + 1] ELSE cards
  /\ filed' = IF At("note") THEN [filed EXCEPT ![hrun] = Append(@, harg)]
              ELSE filed
  /\ posts' = IF At("escalate") THEN [posts EXCEPT ![hrun] = @ \cup {harg}]
              ELSE posts
  /\ Raise
  /\ UNCHANGED <<ledgerVars, asked>>

-----------------------------------------------------------------------------
Starts ==
  \/ \E k \in Keys : Deliver(k)
  \/ \E r \in RunIds : Approve(r) \/ Edit(r) \/ Reject(r) \/ RecordResolution(r)

Continues ==
  \/ Confirm \/ Suppress \/ PassSafety \/ Draft \/ PassChecks \/ FailChecks
  \/ ModelDies \/ ModelRaises \/ PostCard \/ Surface \/ PostEscalation \/ Fail
  \/ Approved \/ Rejected \/ Diff \/ Edited \/ Act \/ FileNote
  \/ Settle \/ Resolve \/ PortRefuses \/ PortLoses
=============================================================================
