------------------------------ MODULE Partners ------------------------------
(***************************************************************************)
(* The partner configuration and the saves of several administrators       *)
(* (apps/api/src/routes/partners-config.ts, services/partners.ts).         *)
(*                                                                         *)
(* A save validates its input, reads the rows it could collide with, and   *)
(* only then opens the transaction that writes the row and its audit row.  *)
(* No index of the database keeps an ISA id to one partner.                *)
(***************************************************************************)
EXTENDS FiniteSets, Naturals

CONSTANTS
  PartnerIds,  \* ids of partner rows; a create takes one that is not in use
  Requests,    \* requests that may be under way at once
  IsaIds,      \* interchange ids
  InitialRows, \* rows that may be there from the start
  NoRow,
  MaxSaves,    \* bound: requests that pass their checks
  MaxMishaps   \* bound: connections lost, pages reloaded, channels not
               \* started, crashes

\* A row of the database, and what a request sends for one.
Rows   == [send : SUBSET IsaIds, recv : SUBSET IsaIds, active : BOOLEAN,
           conn : {"unset", "set"}]
Inputs == [send : SUBSET IsaIds, recv : SUBSET IsaIds, active : BOOLEAN,
           conn : {"omit", "set", "partial"}, named : BOOLEAN]

ASSUME PartnersAssumption ==
  /\ {MaxSaves, MaxMishaps} \subseteq Nat /\ NoRow \notin PartnerIds \cup Rows
  /\ InitialRows \subseteq Rows

VARIABLES
  partner,  \* per id: its row, or NoRow
  save,     \* per request: what it is about to write
  crossed,  \* history: pairs of rows of which the later write missed the earlier
  saves,
  mishaps

partnerVars == <<partner, save, crossed, saves, mishaps>>

Idle == [op |-> "idle", id |-> NoRow, input |-> NoRow, unseen |-> {}]

PartnersInit == /\ \/ partner = [i \in PartnerIds |-> NoRow]
                   \/ \E i \in PartnerIds, r \in InitialRows :
                        partner = [[j \in PartnerIds |-> NoRow] EXCEPT ![i] = r]
                /\ save = [a \in Requests |-> Idle]
                /\ crossed = {}
                /\ saves = 0 /\ mishaps = 0

Mishap == mishaps < MaxMishaps /\ mishaps' = mishaps + 1
-----------------------------------------------------------------------------
\* Slip: only active partners are compared.
OverlapsActive(input, i) ==
  \E j \in PartnerIds \ {i} :
    /\ partner[j] # NoRow /\ partner[j].active
    /\ \/ input.send \cap partner[j].send # {}
       \/ input.recv \cap partner[j].recv # {}

\* assertNoIsaOverlap: sender ids against sender ids, receiver ids against
\* receiver ids, of every other partner.
Overlaps(input, i) ==
  \E j \in PartnerIds \ {i} :
    /\ partner[j] # NoRow
    /\ \/ input.send \cap partner[j].send # {}
       \/ input.recv \cap partner[j].recv # {}

\* validatePartnerInput: connectivity, when sent, must be complete, and there
\* must be a name.
Valid(input) == input.named /\ input.conn # "partial"

Free(i) == partner[i] = NoRow /\ \A a \in Requests : save[a].id # i

Begin(a, op, i, input) ==
  /\ save[a] = Idle /\ saves < MaxSaves
  /\ saves' = saves + 1
  /\ save' = [save EXCEPT ![a] = [op |-> op, id |-> i, input |-> input, unseen |-> {}]]
  /\ UNCHANGED <<partner, crossed, mishaps>>

\* POST, up to its transaction.
CheckCreate(a, i, input) == /\ Free(i) /\ Valid(input) /\ ~Overlaps(input, i)
                            /\ Begin(a, "create", i, input)

\* PATCH, up to its transaction.
CheckUpdate(a, i, input) ==
  /\ partner[i] # NoRow /\ Valid(input) /\ ~Overlaps(input, i)
  /\ Begin(a, "update", i, input)

CheckDelete(a, i) == partner[i] # NoRow /\ Begin(a, "delete", i, NoRow)

\* Answered 404, 400 or 409, in the order the handlers check.
Refuses(op, i, input) == \/ op # "create" /\ partner[i] = NoRow
                         \/ op # "delete" /\ (~Valid(input) \/ Overlaps(input, i))

\* An update leaves connectivity alone when the input omits it; a create
\* stores {}.
Row(old, input) ==
  [send |-> input.send, recv |-> input.recv, active |-> input.active,
   conn |-> IF input.conn # "omit" THEN input.conn
            ELSE IF old = NoRow THEN "unset" ELSE old.conn]

\* An update or delete of a row that is gone throws in its transaction.
Gone(a) == save[a].op # "create" /\ partner[save[a].id] = NoRow

\* The transaction of a.
Write(a) ==
  LET i == save[a].id
      row == IF save[a].op = "delete" THEN NoRow ELSE Row(partner[i], save[a].input)
  IN /\ save[a] # Idle
     /\ partner' = IF Gone(a) THEN partner ELSE [partner EXCEPT ![i] = row]
     /\ crossed' = IF Gone(a) THEN crossed
                   ELSE {p \in crossed : i \notin p} \cup {{i, j} : j \in save[a].unseen}
     /\ save' = [b \in Requests |->
          IF b = a \/ save[b] = Idle THEN Idle
          ELSE [save[b] EXCEPT !.unseen = @ \cup {i}]]
     /\ UNCHANGED <<saves, mishaps>>
-----------------------------------------------------------------------------
\* Two partners list one sender id, or one receiver id, only if one of them
\* was written between the check and the write of the other: assertNoIsaOverlap
\* runs outside the transaction (routes/partners-config.ts, POST and PATCH).
IsaOwnedOnce ==
  \A i, j \in PartnerIds :
    (/\ i # j /\ partner[i] # NoRow /\ partner[j] # NoRow
     /\ \/ partner[i].send \cap partner[j].send # {}
        \/ partner[i].recv \cap partner[j].recv # {})
    => {i, j} \in crossed
=============================================================================
