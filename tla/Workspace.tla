------------------------------ MODULE Workspace ------------------------------
(***************************************************************************)
(* The control plane's process: sessions of several tenants answer cards,  *)
(* chat and build agents, and the process may be restarted.  The runs come *)
(* back from their tables and the mode from the settings file; the         *)
(* registry of tenants, proposals, conversations, drafts and built agents  *)
(* live in the process.                                                    *)
(***************************************************************************)
EXTENDS Builder

CONSTANT MaxRestarts   \* bound

VARIABLE restarts

vars == <<answers, known, mode, told, talk, build, restarts>>

TypeOK ==
  /\ ApprovalsTypes /\ ChatTypes /\ BuilderTypes
  /\ restarts \in Nat

Init == ApprovalsInit /\ ChatInit /\ BuilderInit /\ restarts = 0

-----------------------------------------------------------------------------
\* An answer is in the table once its handler got through.
Saved(row) ==
  IF row.state \in {"awaiting_gate", "acting"}
    THEN [Absent EXCEPT !.state = "awaiting_gate"] ELSE row

Hydrated == [r \in Runs |-> Saved(runs[r])]

Restart ==
  /\ restarts < MaxRestarts
  /\ restarts' = restarts + 1
  /\ runs' = Hydrated
  /\ known' = {Home}
  /\ proposals' = {} /\ convs' = <<>>
  /\ drafts' = <<>> /\ built' = <<>>
  /\ UNCHANGED <<mode, filed, lost, yeses, told, cards, drawn>>

-----------------------------------------------------------------------------
\* Requests of a session of tenant t; c is the conversation its page shows.
Answer(t) ==
  /\ \/ \E r \in Runs, action \in Action : Act(t, r, action)
     \/ \E rs \in SUBSET Runs \ {{}}, action \in Action : ActBulk(t, rs, action)
     \/ \E m \in Mode : SetMode(t, m)
     \/ Login(t)
  /\ UNCHANGED <<talk, build, restarts>>

Talk(t) ==
  /\ \E c \in 0..MaxConvs :
       \/ /\ \/ Chat(t, c)
             \/ \E r \in Runs : ChatProposes(t, c, r)
             \/ DeleteConv(t, c)
          /\ UNCHANGED <<answers, told>>
       \/ \E card \in DOMAIN cards :
            \/ \E action \in Action \cup {""} :
                 ConfirmLate(t, c, card, action) \/ ConfirmDecides(t, c, card, action)
            \/ ConfirmUnknown(t, c, card)
  /\ UNCHANGED <<known, mode, build, restarts>>

Build(t) ==
  /\ \/ DrawOnPage(t) /\ UNCHANGED talk
     \/ \E c \in 0..MaxConvs : DrawInChat(t, c) /\ UNCHANGED <<cards, proposals>>
     \/ \E b \in 1..MaxDrafts :
          \/ /\ \/ \E own \in OwnAnswers : AnswerInChat(b, own) \/ AnswerOnPage(t, b, own)
                \/ Finish(t, b) \/ Redraw(t, b) \/ AddOnPage(t, b)
             /\ UNCHANGED talk
          \/ \E c \in 0..MaxConvs : AddInChat(t, c, b)
  /\ UNCHANGED <<answers, known, mode, told, restarts>>

Outside ==
  /\ \E r \in Runs : Arrive(r) \/ \E action \in Action : SlackAnswer(r, action)
  /\ UNCHANGED <<talk, build, restarts>>

Next == Outside \/ (\E t \in Tenants : Answer(t) \/ Talk(t) \/ Build(t)) \/ Restart

Spec == Init /\ [][Next]_vars

-----------------------------------------------------------------------------
\* What people were told in the chat or in Slack stays true, over restarts and
\* whatever other cards for the same run are answered: "sent" was sent and is
\* on the record, "not sent" is on the record, and was not sent unless an
\* earlier filing broke off before it was saved.
ToldTheTruth ==
  \A r \in Runs :
    /\ <<r, "sent">> \in told => r \in filed /\ runs[r].state = "acted"
    /\ <<r, "dismissed">> \in told => /\ runs[r].state = "rejected"
                                      /\ r \in filed => r \in lost

\* "A session only ever decides its own": the actor on the gate of a run is a
\* session of its tenant, or somebody in Slack, whatever the chat showed whom.
DecidedByItsTenant ==
  \A r \in Runs : runs[r].actor \in {Owner[r], Slack, Nobody}

\* A card whose run still waits is spent only by its own tenant when the
\* registry has lost that tenant, or when the process goes.
WaitingCardsKept ==
  [][\A card \in proposals \ proposals' :
       runs'[cards[card]] = runs[cards[card]] /\ runs[cards[card]].gate = "none"
       /\ Awaiting(cards[card])
       => Owner[cards[card]] \notin known \/ restarts' # restarts]_vars

\* The mode that lets small ones go was earned: the tenant once gave as many
\* clean approvals as it takes, though a restart may have forgotten some.
SmallWasEarned ==
  \A t \in Tenants :
    mode[t] = "small" => Cardinality({r \in yeses : Owner[r] = t}) >= YesTarget

\* One draft becomes one agent, whichever of its two doors is used and how
\* often, no two agents share an address, and the builder leads people back to
\* a draft of their own that is none yet, with the form of its stage and the
\* answers its card in the chat shows.
OneAgentPerDraft ==
  /\ \A i, j \in DOMAIN built :
       i # j => built[i].draft # built[j].draft /\ built[i].slug # built[j].slug
  /\ \A i \in DOMAIN built : built[i].slug \notin Shipped
  /\ \A t \in Tenants :
       LET last == _builder_landing(t).resume
           page == builder_content(t, last)
       IN last # 0 => /\ page.draft = last /\ drafts[last].tenant = t
                      /\ \A i \in DOMAIN built : built[i].draft # drafts[last].mark
                      /\ page.shows = _build_draft_res(last).shows
                      /\ page.forms = {"build_change", "build_create"}
                           <=> drafts[last].stage = "done"

-----------------------------------------------------------------------------
(* Home.                                                                   *)

\* Home's chips name the first agent anybody built, by the key `name` of its
\* row; what was asked lives in convs, and every thread is read on Home.
HomeOpens == built # <<>> => "name" \in DOMAIN built[1]

\* "The one open-ended thread every tenant always has": Home, where it and
\* every other conversation are read, opens for whoever is signed in
\* (general_conv_id, chat_render).
EveryTenantHasAThread == \A t \in known : HomeOpens
=============================================================================
