-------------------------------- MODULE Team --------------------------------
(* The seats of one team workspace and the credits of its members.  Stripe     *)
(* says how many seats are paid for; webhook handlers turn its items into      *)
(* SubscriptionSeat rows, hand them to members and set the members' balances   *)
(* (payments/webhooks.py, workspaces/models.py); meanwhile members join, use   *)
(* their credits and leave (workspaces/views.py, daras_ai_v2/base.py).         *)
EXTENDS Integers, FiniteSets, Sequences, SequencesExt

CONSTANTS
    Users,      \* by email
    Owner,      \* member 1 from the start
    Seats,      \* bound: slots for rows of SubscriptionSeat, numbers
    Types,      \* public seat types
    NoType,
    Limit,      \* Limit[t] = SeatType.monthly_credit_limit
    Items,      \* what Stripe may bill: [type, n] of each type once, <<>> when cancelled
    MaxChanges, \* bound: changes and cycles at Stripe
    MaxJoins,   \* bound: memberships
    OneByOne,   \* webhooks arrive in order, and what changes seats does not overlap
    MaxUses,    \* bound: credits used
    MaxLost     \* bound: webhooks that are handled although Stripe gets no answer

ASSUME TeamAssumption ==
    /\ IsFiniteSet(Users) /\ Owner \in Users
    /\ IsFiniteSet(Seats) /\ Seats \subseteq Nat
    /\ NoType \notin Types /\ Limit \in [Types -> Nat]
    /\ \A items \in Items :
          /\ items \in Seq([type : Types, n : Nat])
          /\ \A j, k \in DOMAIN items : items[j].type = items[k].type => j = k
    /\ MaxChanges \in Nat /\ MaxJoins \in Nat \ {0} /\ MaxUses \in Nat /\ MaxLost \in Nat
    /\ OneByOne \in BOOLEAN

VARIABLES
    billed,  \* the items of the subscription at Stripe, and its changes so far
    row,     \* the Subscription row: its plan, and whether it names Stripe's subscription
    seat,    \* seat[s]: its type, NoType if there is no row, and the id it is assigned to
    member,  \* member[u]: the id of u's membership, 0 without one, and its balance
    joins,   \* ids of memberships given out so far
    invite,  \* invite[u]: status, and whether u looks at it while it reads pending
    hooks,   \* webhooks in the order Stripe sends them
    txns,    \* AppUserTransaction rows with the invoice_id <invoice>/<seat id>
    uses,
    lost

team == <<billed, row, seat, member, joins, invite, hooks, txns, uses, lost>>

NoSeat == [type |-> NoType, to |-> 0]

TeamInit ==
    /\ billed = [items |-> <<>>, changes |-> 0]
    /\ row = [plan |-> "starter", linked |-> FALSE]
    /\ seat = [s \in Seats |-> NoSeat]
    /\ member = [u \in Users |-> [id |-> IF u = Owner THEN 1 ELSE 0, balance |-> 0]]
    /\ joins = 1
    /\ invite = [u \in Users |-> [status |-> "none", open |-> FALSE]]
    /\ hooks = <<>>
    /\ txns = {}
    /\ uses = 0 /\ lost = 0

Live(id) == \E u \in Users : id # 0 /\ member[u].id = id
UserOf(id) == CHOOSE u \in Users : member[u].id = id
Seated(id) == \E s \in Seats : seat[s].to = id

\* Webhook handlers between their reads and their writes.
Reading == {i \in DOMAIN hooks : hooks[i].pc \in {"saved", "read"}}

-----------------------------------------------------------------------------
(* Stripe *)

Hook(kind, items, pc) == [kind |-> kind, items |-> items, pc |-> pc,
                          replaced |-> FALSE, team |-> FALSE,
                          seen |-> [s \in Seats |-> NoSeat], balance |-> [s \in Seats |-> 0]]

\* The subscription is bought, changed, cancelled or billed for another month.
ChangeItems(items) ==
    /\ billed.changes < MaxChanges
    /\ items \in Items /\ items # billed.items
    /\ billed.items = <<>> => billed.changes = 0       \* bound: one subscription
    /\ billed' = [items |-> items, changes |-> billed.changes + 1]
    /\ hooks' = hooks \o (IF items = <<>> THEN <<Hook("deleted", <<>>, "sent")>>
                          ELSE <<Hook("updated", items, "sent"), Hook("paid", <<>>, "sent")>>)
    /\ UNCHANGED <<row, seat, member, joins, invite, txns, uses, lost>>

Cycle ==
    /\ billed.changes < MaxChanges /\ billed.items # <<>>
    /\ billed' = [billed EXCEPT !.changes = @ + 1]
    /\ hooks' = Append(hooks, Hook("cycle", <<>>, "sent"))
    /\ UNCHANGED <<row, seat, member, joins, invite, txns, uses, lost>>

-----------------------------------------------------------------------------
(* Webhook handlers: the Subscription row, the seats that are deleted, the others *)

InTurn(i) == OneByOne => Reading = {} /\ \A j \in 1 .. i - 1 : hooks[j].pc = "done"

\* A balance is read through seat.assigned_to, a soft-deleted membership's too; those
\* are never in a way of what follows and read as 0 here.
BalanceOf(id) == IF Live(id) THEN member[UserOf(id)].balance ELSE 0

\* set_workspace_subscription commits the row; a paid invoice only reads it.
SaveRow(i) ==
    /\ hooks[i].pc = "sent" /\ hooks[i].kind # "cycle" /\ InTurn(i)
    /\ LET linked == IF hooks[i].kind = "paid" THEN row.linked ELSE hooks[i].kind = "updated" IN
       /\ row' = IF hooks[i].kind = "paid" THEN row
                 ELSE [plan |-> IF linked THEN "team" ELSE "starter", linked |-> linked]
       /\ hooks' = [hooks EXCEPT ![i].pc = "saved", ![i].replaced = linked # row.linked,
                                 ![i].team = row'.plan = "team"]
    /\ UNCHANGED <<billed, seat, member, joins, invite, txns, uses, lost>>

\* The seats are deleted when the row named another subscription, and then read; a paid
\* invoice asks Stripe for the items.
ReadSeats(i) ==
    /\ hooks[i].pc = "saved"
    /\ LET kept == IF hooks[i].replaced THEN [s \in Seats |-> NoSeat] ELSE seat IN
       /\ seat' = kept
       /\ hooks' = [hooks EXCEPT
             ![i].pc = "read", ![i].replaced = FALSE,
             ![i].items = IF hooks[i].kind = "paid" THEN billed.items ELSE @,
             ![i].seen = kept, ![i].balance = [s \in Seats |-> BalanceOf(kept[s].to)]]
    /\ UNCHANGED <<billed, row, member, joins, invite, txns, uses, lost>>

\* The counts of a dict by type, in the order of their insertion.
Entries(counts, t) == {k \in DOMAIN counts : counts[k].type = t}

CountOf(counts, t) ==
    IF Entries(counts, t) = {} THEN 0 ELSE counts[CHOOSE k \in Entries(counts, t) : TRUE].n

Without(counts, t) ==
    IF Entries(counts, t) = {} THEN counts
    ELSE RemoveAt(counts, CHOOSE k \in Entries(counts, t) : TRUE)

\* The upgrade of a seat keeps what its member has used, a downgrade does not.
ToAdd(balance, old, new) == IF balance <= old /\ old <= new THEN new - old ELSE new - balance

\* Mutant of Credit: balances are only ever raised.
CreditRises(e, s, amount) ==
    IF e.seen[s].to = 0 \/ amount <= 0 THEN {}
    ELSE {[seat |-> s, to |-> e.seen[s].to, amount |-> amount]}

\* add_balance of the seat's member
Credit(e, s, amount) ==
    IF e.seen[s].to = 0 THEN {} ELSE {[seat |-> s, to |-> e.seen[s].to, amount |-> amount]}

\* One seat: its type is still paid for, or it takes another type, or it goes.
Visit(e, acc, s) ==
    LET t == e.seen[s].type
        n == CountOf(acc.counts, t)
        rest == Without(acc.counts, t)
        c == Last(rest) IN
    CASE n > 0 ->
           [counts |-> Append(rest, [type |-> t, n |-> n - 1]),
            seat |-> acc.seat, credits |-> acc.credits]
      [] n = 0 /\ rest # <<>> ->
           [counts  |-> IF c.n > 1 THEN Append(Front(rest), [type |-> c.type, n |-> c.n - 1])
                        ELSE Front(rest),
            seat    |-> [acc.seat EXCEPT ![s] = [type |-> c.type, to |-> acc.seat[s].to]],
            credits |-> acc.credits \cup Credit(e, s, ToAdd(e.balance[s], Limit[t], Limit[c.type]))]
      [] n = 0 /\ rest = <<>> ->
           [counts  |-> <<>>,
            seat    |-> [acc.seat EXCEPT ![s] = NoSeat],
            credits |-> acc.credits \cup Credit(e, s, - e.balance[s])]

\* Mutant of Rows: only the seats that are assigned.
RowsAssigned(seen) == {s \in Seats : seen[s].to # 0}

Rows(seen) == {s \in Seats : seen[s].type # NoType}

\* Unassigned seats come first (nulls first), then those of the newest members.
Earlier(seen, s, r) == IF seen[s].to = 0 THEN seen[r].to # 0 \/ s < r
                       ELSE seen[r].to # 0 /\ seen[s].to > seen[r].to

Place(seen, s) == Cardinality({r \in Rows(seen) : Earlier(seen, r, s)}) + 1

\* The loop over the seats: the counts that are left, the rows, the add_balance calls.
Passes(i) ==
    LET e == hooks[i]
        pass[k \in 0 .. Cardinality(Rows(e.seen))] ==
            IF k = 0 THEN [counts |-> e.items, seat |-> seat, credits |-> {}]
            ELSE Visit(e, pass[k - 1], CHOOSE s \in Rows(e.seen) : Place(e.seen, s) = k) IN
    pass

Loop(i) == Passes(i)[Cardinality(Rows(hooks[i].seen))]

\* Slots that no row has, nor a handler in the middle of its work.
FreeSlots(acc) == {s \in Seats : /\ acc.seat[s].type = NoType
                                 /\ \A j \in Reading : hooks[j].seen[s].type = NoType}

\* Seats for the counts that are left, as the types of free slots.
Fillings(acc) ==
    LET free == FreeSlots(acc) IN
    {new \in [Seats -> Types \cup {NoType}] :
        /\ \A s \in Seats : new[s] # NoType => s \in free
        /\ \A t \in Types : Cardinality({s \in Seats : new[s] = t}) = CountOf(acc.counts, t)}

Created(acc) ==
    LET new == CHOOSE f \in Fillings(acc) : TRUE IN
    [s \in Seats |-> IF new[s] # NoType THEN [type |-> new[s], to |-> 0] ELSE acc.seat[s]]

\* Mutant of Unseated: members keep a seat and get another.
UnseatedOrNot(seats) == {u \in Users : member[u].id # 0}

Unseated(seats) == {u \in Users : member[u].id # 0 /\ \A s \in Seats : seats[s].to # member[u].id}

Vacant(seats) == {s \in Seats : seats[s].type # NoType /\ seats[s].to = 0}

Better(seats, s, r) == \/ Limit[seats[s].type] > Limit[seats[r].type]
                       \/ Limit[seats[s].type] = Limit[seats[r].type] /\ s < r

\* auto_assign_team_seats: the newest members without a seat get the free seats with
\* the highest limits.
Assignments(seats) ==
    {p \in Unseated(seats) \X Vacant(seats) :
        Cardinality({u \in Unseated(seats) : member[u].id > member[p[1]].id})
            = Cardinality({s \in Vacant(seats) : Better(seats, s, p[2])})}

Assigned(seats, pairs) ==
    [s \in Seats |->
        IF \E u \in Users : <<u, s>> \in pairs
        THEN [type |-> seats[s].type, to |-> member[CHOOSE u \in Users : <<u, s>> \in pairs].id]
        ELSE seats[s]]

\* A webhook is answered, or it was handled and Stripe will send it again.
Again(e) == Hook(e.kind, IF e.kind = "paid" THEN <<>> ELSE e.items, "sent")

Answered(i) ==
    \/ /\ hooks' = [hooks EXCEPT ![i] = Hook(@.kind, <<>>, "done")]
       /\ UNCHANGED lost
    \/ /\ lost < MaxLost
       /\ lost' = lost + 1
       /\ hooks' = [hooks EXCEPT ![i] = Again(@)]

\* The invoice_id of invoice.paid is the invoice's, the other handlers make one up.
Done(i, s) == hooks[i].kind = "paid" /\ <<i, s>> \in txns

\* A row or a membership that the handler has seen is gone.
Fails(i, acc) ==
    \/ \E s \in Seats : seat[s].type = NoType /\ acc.seat[s].type # NoType
    \/ \E c \in acc.credits : ~Done(i, c.seat) /\ ~Live(c.to)

\* The balance of u after the add_balance calls, the one for a new seat being the last.
Balance(i, u, credits, seats, pairs) ==
    LET won  == {s \in Seats : <<u, s>> \in pairs /\ ~Done(i, s)}
        mine == {c \in credits : c.to = member[u].id /\ ~Done(i, c.seat)} IN
    CASE won # {} -> Limit[seats[CHOOSE s \in won : TRUE].type]
      [] won = {} /\ mine # {} -> member[u].balance + (CHOOSE c \in mine : TRUE).amount
      [] won = {} /\ mine = {} -> member[u].balance

\* set_subscription_seats_from_stripe_sub, one transaction
SetSeats(i) ==
    /\ hooks[i].pc = "read"
    /\ LET acc   == Loop(i)
           seats == Created(acc)
           pairs == IF hooks[i].team THEN Assignments(seats) ELSE {} IN
       /\ ~Fails(i, acc)
       /\ Fillings(acc) # {}                           \* bound: enough slots
       /\ seat' = Assigned(seats, pairs)
       /\ member' = [u \in Users |->
             [id |-> member[u].id, balance |-> Balance(i, u, acc.credits, seats, pairs)]]
       /\ txns' = {x \in txns : seats[x[2]].type # NoType} \cup
                  (IF hooks[i].kind # "paid" THEN {}
                   ELSE {<<i, s>> : s \in {c.seat : c \in acc.credits} \cup {p[2] : p \in pairs}})
    /\ Answered(i)
    /\ UNCHANGED <<billed, row, joins, invite, uses>>

\* The transaction is rolled back, or the server dies; Stripe sends the webhook again.
Retry(i) ==
    /\ i \in Reading
    /\ hooks' = [hooks EXCEPT ![i] = Again(@)]
    /\ UNCHANGED <<billed, row, seat, member, joins, invite, txns, uses, lost>>

\* Mutant of NotYet: nothing tells a second delivery from the first.
NotYetIgnored(i, reset) == TRUE

\* bulk_create fails when one of the rows is there already.
NotYet(i, reset) == \A s \in reset : <<i, s>> \notin txns

\* reset_member_balance for the invoice of a new month
Reset(i) ==
    LET reset == {s \in Seats : Live(seat[s].to)} IN
    /\ hooks[i].pc = "sent" /\ hooks[i].kind = "cycle" /\ InTurn(i)
    /\ row.plan = "team" => NotYet(i, reset)
    /\ IF row.plan = "team"
       THEN /\ member' = [u \in Users |->
                 IF \E s \in reset : seat[s].to = member[u].id
                 THEN [member[u] EXCEPT !.balance =
                         Limit[seat[CHOOSE s \in reset : seat[s].to = member[u].id].type]]
                 ELSE member[u]]
            /\ txns' = txns \cup {<<i, s>> : s \in reset}
       ELSE UNCHANGED <<member, txns>>
    /\ Answered(i)
    /\ UNCHANGED <<billed, row, seat, joins, invite, uses>>

-----------------------------------------------------------------------------
(* Members *)

\* create_and_send_invite
Invite(u) ==
    /\ row.plan = "team" /\ member[u].id = 0 /\ joins < MaxJoins
    /\ invite[u].status # "pending"
    /\ invite' = [invite EXCEPT ![u].status = "pending"]
    /\ UNCHANGED <<billed, row, seat, member, joins, hooks, txns, uses, lost>>

CancelInvite(u) ==
    /\ invite[u].status = "pending"
    /\ invite' = [invite EXCEPT ![u].status = "cancelled"]
    /\ UNCHANGED <<billed, row, seat, member, joins, hooks, txns, uses, lost>>

\* The page of an invitation, or its automatic acceptance, has read the invite.
OpenInvite(u) ==
    /\ invite[u].status = "pending" /\ ~invite[u].open
    /\ invite' = [invite EXCEPT ![u].open = TRUE]
    /\ UNCHANGED <<billed, row, seat, member, joins, hooks, txns, uses, lost>>

\* WorkspaceInvite.accept: the new membership and its seat are one transaction.
Accept(u) ==
    /\ invite[u].open /\ (OneByOne => Reading = {})
    /\ LET id == joins + 1
           free == Vacant(seat) IN
       IF row.plan = "team" /\ member[u].id = 0 /\ free # {} /\ joins < MaxJoins
       THEN \E s \in free :
              /\ \A r \in free : Limit[seat[r].type] <= Limit[seat[s].type]
              /\ seat' = [seat EXCEPT ![s].to = id]
              /\ member' = [member EXCEPT ![u] = [id |-> id, balance |-> Limit[seat[s].type]]]
              /\ joins' = id
              /\ invite' = [invite EXCEPT ![u] = [status |-> "accepted", open |-> FALSE]]
       ELSE /\ invite' = [invite EXCEPT ![u].open = FALSE]
            /\ UNCHANGED <<seat, member, joins>>
    /\ UNCHANGED <<billed, row, hooks, txns, uses, lost>>

\* A run of u is charged to u's own balance (BasePage.deduct_credits).
Use(u) ==
    /\ row.plan = "team" /\ member[u].id # 0
    /\ uses < MaxUses
    /\ uses' = uses + 1
    /\ member' = [member EXCEPT ![u].balance = @ - 1]
    /\ UNCHANGED <<billed, row, seat, joins, invite, hooks, txns, lost>>

\* The membership is soft-deleted; the last member's would delete the workspace ...
Leave(u) ==
    /\ member[u].id # 0
    /\ \E v \in Users \ {u} : member[v].id # 0
    /\ member' = [member EXCEPT ![u] = [id |-> 0, balance |-> 0]]
    /\ UNCHANGED <<billed, row, seat, joins, invite, hooks, txns, uses, lost>>

\* ... and the signal that follows frees its seat.
Unassign(s) ==
    /\ seat[s].to # 0 /\ ~Live(seat[s].to)
    /\ seat' = [seat EXCEPT ![s].to = 0]
    /\ UNCHANGED <<billed, row, member, joins, invite, hooks, txns, uses, lost>>

-----------------------------------------------------------------------------
TeamNext ==
    \/ \E items \in Items : ChangeItems(items)
    \/ Cycle
    \/ \E i \in DOMAIN hooks : SaveRow(i) \/ ReadSeats(i) \/ SetSeats(i) \/ Retry(i) \/ Reset(i)
    \/ \E u \in Users : Invite(u) \/ CancelInvite(u) \/ OpenInvite(u) \/ Accept(u) \/ Use(u) \/ Leave(u)
    \/ \E s \in Seats : Unassign(s)

TeamSpec == TeamInit /\ [][TeamNext]_team

-----------------------------------------------------------------------------
\* The types of the rows, and SubscriptionSeat's one-to-one field: no membership has
\* two seats.
TeamTypes ==
    /\ \A s, r \in Seats : seat[s].to # 0 /\ s # r => seat[s].to # seat[r].to
    /\ row \in [plan : {"starter", "team"}, linked : BOOLEAN]
    /\ seat \in [Seats -> [type : Types \cup {NoType}, to : 0 .. MaxJoins]]
    /\ member \in [Users -> [id : 0 .. MaxJoins, balance : Int]]
    /\ joins \in 0 .. MaxJoins
    /\ invite \in [Users -> [status : {"none", "pending", "accepted", "cancelled"}, open : BOOLEAN]]
    /\ txns \subseteq (DOMAIN hooks) \X Seats

Bought(t) == CountOf(billed.items, t)
AllAnswered == \A i \in DOMAIN hooks : hooks[i].pc = "done"

\* When every webhook has been answered the seats are those that Stripe bills, if
\* handlers do not overlap and run in the order of their events (OneByOne).
SeatsMatchStripe ==
    AllAnswered =>
        \A t \in Types : Cardinality({s \in Seats : seat[s].type = t}) = Bought(t)

\* Who has no seat has no credits, and who has one has no more than the seat's limit:
\* changes of type keep or cut what is left, seats that go take it along.
CreditsFollowSeats ==
    row.plan = "team" /\ lost = 0 =>
        \A u \in Users : member[u].id # 0 =>
            IF Seated(member[u].id)
            THEN \A s \in Seats : seat[s].to = member[u].id => member[u].balance <= Limit[seat[s].type]
            ELSE member[u].balance <= 0

\* The comment at payments/webhooks.py:405: when a seat goes, its member's balance is
\* set to 0.
SeatlessIsZero ==
    AllAnswered => \A u \in Users : member[u].id # 0 /\ ~Seated(member[u].id) => member[u].balance <= 0

\* A member's balance rises only with a change of the member's seat, or once for the
\* invoice of a month, however often Stripe sends it.
SeatOf(id) == {<<s, seat[s].type>> : s \in {r \in Seats : id # 0 /\ seat[r].to = id}}

CreditsHaveCause ==
    [][\A u \in Users :
          member'[u].id = member[u].id /\ member'[u].balance > member[u].balance =>
              \/ SeatOf(member[u].id)' # SeatOf(member[u].id)
              \/ \E i \in DOMAIN hooks, s \in Seats :
                    seat[s].to = member[u].id /\ <<i, s>> \in txns' \ txns /\ hooks[i].kind = "cycle"]_team
=============================================================================
