-------------------------------- MODULE Chat --------------------------------
(***************************************************************************)
(* The chat of the workspace.  A message may bring up a waiting reply with *)
(* buttons; the buttons name a proposal by an opaque id, and confirm()     *)
(* turns the proposal into an answer of the run behind it.  The            *)
(* conversation remembers which card is pending and how it went.           *)
(***************************************************************************)
EXTENDS Approvals

CONSTANTS
  NoTenant,   \* of a conversation that was deleted
  MaxCards,   \* bound: cards drawn
  MaxConvs    \* bound: conversations of one process

ASSUME NoTenantAssumption == NoTenant \notin Tenants

VARIABLES
  cards,      \* the run each card was drawn for; a card's id is never reused
  proposals,  \* PROPOSALS: the cards that can still be answered
  convs       \* CONVS, in the order of their ids

talk == <<cards, proposals, convs>>

NoCard == 0

Conv == [tenant  : Tenants \cup {NoTenant},
         pending : Nat,
         outcome : {"none", "approved", "dismissed"}]

ChatTypes ==
  /\ cards \in Seq(Runs)
  /\ proposals \subseteq DOMAIN cards
  /\ convs \in Seq(Conv)

ChatInit == cards = <<>> /\ proposals = {} /\ convs = <<>>

-----------------------------------------------------------------------------
Own(t, c) == c \in DOMAIN convs /\ convs[c].tenant = t

\* A message goes to the tenant's conversation c, or starts one, and leaves the
\* card it brought up, if any, pending there.
Say(t, c, card) ==
  IF Own(t, c)
    THEN convs' = IF card = NoCard THEN convs ELSE [convs EXCEPT ![c].pending = card]
    ELSE /\ Len(convs) < MaxConvs
         /\ convs' = Append(convs, [tenant |-> t, pending |-> card, outcome |-> "none"])

\* /api/chat, answered off the record or with a reply that is decided already.
Chat(t, c) ==
  /\ Say(t, c, NoCard)
  /\ UNCHANGED <<cards, proposals>>

\* Mutant of ChatProposes: the proposal is stored under the card before it.
ChatProposesOffByOne(t, c, r) ==
  /\ Awaiting(r) /\ Len(cards) < MaxCards
  /\ cards' = Append(cards, r)
  /\ proposals' = proposals \cup {Len(cards)}
  /\ Say(t, c, Len(cards) + 1)

\* /api/chat, answered with a waiting reply: the chat looks at every tenant's.
ChatProposes(t, c, r) ==
  /\ Awaiting(r) /\ Len(cards) < MaxCards
  /\ cards' = Append(cards, r)
  /\ proposals' = proposals \cup {Len(cards) + 1}
  /\ Say(t, c, Len(cards) + 1)

\* What /api/confirm writes into the conversation once confirm() has replied,
\* whatever it replied.
Answered(t, c, card, action) ==
  convs' = IF Own(t, c) /\ convs[c].pending = card
             THEN [convs EXCEPT ![c].pending = NoCard,
                                ![c].outcome = CASE action \in {"approve", "edit"} -> "approved"
                                                 [] action = "reject"              -> "dismissed"
                                                 [] OTHER                          -> @]
             ELSE convs

\* The card is gone, or its run is not waiting any more.
ConfirmLate(t, c, card, action) ==
  /\ card \in DOMAIN cards
  /\ \/ card \notin proposals
     \/ Owner[cards[card]] = t /\ ~Awaiting(cards[card])
  /\ proposals' = proposals \ {card}
  /\ Answered(t, c, card, action)
  /\ UNCHANGED <<answers, told, cards>>

\* Mutant of ConfirmDecides: it replies before the pipeline is called.
ConfirmDecidesRepliesFirst(t, c, card, action) ==
  /\ card \in proposals
  /\ LET r == cards[card]
         decision == IF action = "" THEN "approve" ELSE action
     IN /\ MayAnswer(t, r)
        /\ \E end \in Endings(r, decision, t) :
             /\ Settle([x \in {r} |-> end], decision)
             /\ Tell(r, Word(decision)) /\ Answered(t, c, card, action)
  /\ proposals' = proposals \ {card}
  /\ UNCHANGED cards

\* The proposal becomes an answer; without an action it is a yes.
ConfirmDecides(t, c, card, action) ==
  /\ card \in proposals
  /\ LET r == cards[card]
         decision == IF action = "" THEN "approve" ELSE action
     IN /\ MayAnswer(t, r)
        /\ \E end \in Endings(r, decision, t) :
             /\ Settle([x \in {r} |-> end], decision)
             /\ IF end.ok
                  THEN Tell(r, Word(decision)) /\ Answered(t, c, card, action)
                  ELSE UNCHANGED <<told, convs>>
  /\ proposals' = proposals \ {card}
  /\ UNCHANGED cards

\* Mutant of ConfirmUnknown: the card is spent on a session of another tenant.
ConfirmSpendsForeign(t, c, card) ==
  /\ card \in proposals
  /\ LET r == cards[card] IN Awaiting(r) /\ (Owner[r] # t \/ t \notin known)
  /\ proposals' = proposals \ {card}
  /\ UNCHANGED <<answers, told, cards, convs>>

\* The registry lost the tenant: the card is spent and the request fails.
ConfirmUnknown(t, c, card) ==
  /\ card \in proposals
  /\ LET r == cards[card] IN Awaiting(r) /\ Owner[r] = t /\ t \notin known
  /\ proposals' = proposals \ {card}
  /\ UNCHANGED <<answers, told, cards, convs>>

\* /api/conv/delete.
DeleteConv(t, c) ==
  /\ Own(t, c)
  /\ convs' = [convs EXCEPT ![c].tenant = NoTenant]
  /\ UNCHANGED <<cards, proposals>>
=============================================================================
