------------------------------ MODULE PolicyGate ------------------------------
(***************************************************************************)
(* policy.safety over many runs of one tenant: what the cooldown, the      *)
(* claim memory, the daily cap and the token ceiling come to when webhooks *)
(* arrive late, cards wait side by side, filings fail and days go by.      *)
(*                                                                         *)
(* A handler is one step here (one lock serialises them; Pipeline cuts     *)
(* them), and a run keeps only the columns safety reads.                   *)
(***************************************************************************)
EXTENDS RelayDomain, Integers, FiniteSets, Sequences

CONSTANTS
  Merchants, Enrolled, Orders, Reasons, Claims,
  NoClaim,        \* claim_hash before the model confirmed the dispute
  PerDay,         \* policy.per_merchant_per_day
  Window,         \* policy.suppress_window_days
  TokenCeiling,   \* policy.tenant_tokens_per_day
  MaxRuns,        \* bound: webhooks
  MaxDay,         \* bound: the last day
  MaxDelay        \* how many days late a webhook may arrive

ASSUME EnrolledAssumption == Enrolled \subseteq Merchants
ASSUME NoClaimAssumption  == NoClaim \notin Claims
ASSUME LimitsAssumption   == /\ PerDay \in Nat /\ Window \in Nat
                             /\ TokenCeiling \in Nat \ {0}
                             /\ MaxRuns \in Nat /\ MaxDay \in Nat /\ MaxDelay \in Nat

VARIABLES
  runs,    \* the tenant's runs, in the order of the ledger
  today

vars == <<runs, today>>

\* Pipeline's own idea of the spending: nothing ever adds to it.
TokensSpentToday == 0

NotStarted == "none"

SafetyReasons == {"no_order", "order_closed", "recently_countered",
                  "claim_already_handled", "merchant_not_enrolled",
                  "merchant_daily_cap", "tenant_token_ceiling"}

Dispute == [merchant : Merchants, order : Orders, reason : Reasons, day : Nat]

Row == [dispute : Dispute, claim : Claims \cup {NoClaim},
        state : RunState,
        why : SafetyReasons \cup {"", "not_actionable"},  \* suppressed_reason
        qualified : BOOLEAN,                  \* traced "all safety checks passed"
        gate : GateAction \cup {NotStarted}, gatedOn : Nat,
        answered : SUBSET Nat]                \* history: runs with a yes at its arrival

TypeOK ==
  /\ runs \in Seq(Row)
  /\ today \in Nat

Init == runs = <<>> /\ today = 0

-----------------------------------------------------------------------------
SaidYes(r) == r.gate \in {"approve", "edit"}

Filed(r) == r.state \in {"acted", "resolved"}

\* Mutant of RecentlyCountered: only a response not resolved yet counts.
CounteredUntilResolved(d, other) ==
  /\ other.dispute.order = d.order /\ other.dispute.reason = d.reason
  /\ other.state = "acted" /\ d.day - other.gatedOn <= Window

RecentlyCountered(d, other) ==
  /\ other.dispute.order = d.order /\ other.dispute.reason = d.reason
  /\ SaidYes(other) /\ d.day - other.gatedOn <= Window

\* Mutant of ClaimHandled: a claim is remembered until the dispute is settled.
ClaimOpen(d, claim, other) ==
  /\ other.dispute.merchant = d.merchant
  /\ other.claim = claim /\ other.state = "acted"

ClaimHandled(d, claim, other) ==
  /\ other.dispute.merchant = d.merchant
  /\ other.claim = claim /\ Filed(other)

\* Mutant of SameDay: only cards that still wait count.
SameDayWaiting(d) ==
  {i \in DOMAIN runs : /\ runs[i].dispute.merchant = d.merchant
                       /\ runs[i].dispute.day = d.day
                       /\ runs[i].state = "awaiting_gate"}

\* The runs that count against the merchant's day, parked and failed ones too.
SameDay(d) ==
  {i \in DOMAIN runs : /\ runs[i].dispute.merchant = d.merchant
                       /\ runs[i].dispute.day = d.day
                       /\ runs[i].state # "suppressed"}

\* The earlier runs that stop this one; the first of them gives the reason.
Blockers(d, claim) ==
  {i \in DOMAIN runs : RecentlyCountered(d, runs[i]) \/ ClaimHandled(d, claim, runs[i])}

FirstBlocker(d, claim) ==
  runs[CHOOSE i \in Blockers(d, claim) : \A j \in Blockers(d, claim) : i <= j]

\* safety(): the reason to suppress, "" to proceed, in the order of the code.
\* The CRM says of the order "open", "no_order" or "order_closed".
Safety(d, claim, crm) ==
  IF crm # "open" THEN crm
  ELSE IF Blockers(d, claim) # {}
    THEN IF RecentlyCountered(d, FirstBlocker(d, claim))
           THEN "recently_countered" ELSE "claim_already_handled"
  ELSE IF d.merchant \notin Enrolled            THEN "merchant_not_enrolled"
  ELSE IF Cardinality(SameDay(d)) >= PerDay     THEN "merchant_daily_cap"
  ELSE IF TokensSpentToday >= TokenCeiling      THEN "tenant_token_ceiling"
  ELSE ""

-----------------------------------------------------------------------------
\* The run a webhook becomes, with what its handler left it at.
Add(d, claim, state, why) ==
  /\ Len(runs) < MaxRuns
  /\ d.day \in (today - MaxDelay) .. today
  /\ runs' = Append(runs,
       [dispute |-> d, claim |-> claim, state |-> state, why |-> why,
        qualified |-> state \notin {"received", "suppressed"} /\ claim # NoClaim,
        gate |-> NotStarted, gatedOn |-> 0,
        answered |-> {i \in DOMAIN runs : SaidYes(runs[i])}])

\* The model does not confirm the dispute, or is away, and the review channel
\* takes the escalation or refuses it too.
Unconfirmed(d) ==
  /\ \/ Add(d, NoClaim, "suppressed", "not_actionable")
     \/ \E state \in {"failed", "received"} : Add(d, NoClaim, state, "")
  /\ UNCHANGED today

Suppress(d, claim, crm) ==
  /\ Safety(d, claim, crm) # ""
  /\ Add(d, claim, "suppressed", Safety(d, claim, crm))
  /\ UNCHANGED today

\* safety() passes: the model drafts, and the run waits at the gate, was
\* escalated, or is parked where the CRM or Slack raised.
Qualify(d, claim) ==
  /\ Safety(d, claim, "open") = ""
  /\ \E state \in {"awaiting_gate", "failed", "running", "checked"} :
       Add(d, claim, state, "")
  /\ UNCHANGED today

\* crm.opportunity raises inside safety().
CrmDown(d, claim) ==
  /\ Add(d, claim, "received", "")
  /\ UNCHANGED today

-----------------------------------------------------------------------------
\* The stamp and the state a decision on run i ends in.
Decide(i, gate, state) ==
  /\ runs[i].state = "awaiting_gate" /\ runs[i].gate = NotStarted
  /\ runs' = [runs EXCEPT ![i].gate = gate, ![i].gatedOn = today, ![i].state = state]
  /\ UNCHANGED today

\* Mutant of Yes: filing raises with the run still waiting.
YesLeftWaiting(i) ==
  \E gate \in {"approve", "edit"} :
    \E state \in {"acted", "awaiting_gate"} : Decide(i, gate, state)

\* A yes files the response, or is parked: the CRM raised, or the model died
\* while an edit was compared.
Yes(i) ==
  \/ \E gate \in {"approve", "edit"} :
       \E state \in {"acted", "acting"} : Decide(i, gate, state)
  \/ Decide(i, "edit", "awaiting_gate")

Reject(i) == Decide(i, "reject", "rejected")

TimeOut(i) == Decide(i, "timeout", "timed_out")

Move(i, from, to) ==
  /\ runs[i].state \in from
  /\ runs' = [runs EXCEPT ![i].state = to]
  /\ UNCHANGED today

\* Mutant of FailStalled: the run goes to a state that does not exist.
FailStalledMisnamed(i) == Move(i, StallStates, "stalled")

FailStalled(i) == Move(i, StallStates, "failed")

\* Mutant of Resolve: a verdict closes the cards handed to a person too.
ResolveHandedOver(i) == Move(i, {"acted", "timed_out"}, "resolved")

Resolve(i) == Move(i, {"acted"}, "resolved")

NextDay ==
  /\ today < MaxDay
  /\ today' = today + 1
  /\ UNCHANGED runs

-----------------------------------------------------------------------------
Arrive ==
  \E d \in [merchant : Merchants, order : Orders, reason : Reasons, day : 0..MaxDay] :
    \/ Unconfirmed(d)
    \/ \E claim \in Claims :
         \/ \E crm \in {"open", "no_order", "order_closed"} : Suppress(d, claim, crm)
         \/ Qualify(d, claim)
         \/ CrmDown(d, claim)

Settle(i) == Yes(i) \/ Reject(i) \/ TimeOut(i) \/ FailStalled(i) \/ Resolve(i)

Next == Arrive \/ (\E i \in DOMAIN runs : Settle(i)) \/ NextDay

Spec == Init /\ [][Next]_vars

-----------------------------------------------------------------------------
Qualified(merchant, day) ==
  {i \in DOMAIN runs : /\ runs[i].qualified
                       /\ runs[i].dispute.merchant = merchant
                       /\ runs[i].dispute.day = day}

\* No merchant gets more drafts for the disputes of one day than the policy
\* allows, however late their webhooks arrive and whatever becomes of the runs.
DailyCapHolds ==
  \A m \in Merchants, day \in 0..MaxDay : Cardinality(Qualified(m, day)) <= PerDay

\* Inside the window a second response for one order and reason is filed only
\* when both cards were already waiting side by side.
SecondOnlyIfBothWaited ==
  \A i, j \in DOMAIN runs :
    /\ Filed(runs[i]) /\ Filed(runs[j]) /\ i \in runs[j].answered
    /\ runs[i].dispute.order = runs[j].dispute.order
    /\ runs[i].dispute.reason = runs[j].dispute.reason
    => runs[j].dispute.day - runs[i].gatedOn > Window

\* A claim a merchant has answered is answered again only when both cards were
\* already waiting side by side, however many days lie between.
ClaimAnsweredOnce ==
  \A i, j \in DOMAIN runs :
    /\ Filed(runs[i]) /\ Filed(runs[j]) /\ i \in runs[j].answered
    /\ runs[i].dispute.merchant = runs[j].dispute.merchant
    => runs[i].claim # runs[j].claim

=============================================================================
