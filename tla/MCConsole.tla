------------------------------ MODULE MCConsole ------------------------------
(***************************************************************************)
(* Two scenes: the administrators' tabs (Console), and the sections of one *)
(* partner's editor (PartnerSections).  In a scene the other one stands    *)
(* still.                                                                  *)
(***************************************************************************)
EXTENDS Console, PartnerSections, TLC

MCRequests == Tabs \X {"save", "again", "delete"}
MCFirst == [send |-> {1}, recv |-> {}, active |-> TRUE, conn |-> "omit", named |-> TRUE]
MCEmpty == [send |-> {}, recv |-> {}, active |-> TRUE, conn |-> "unset", named |-> FALSE]
MCRows == {[send |-> {1}, recv |-> {}, active |-> FALSE, conn |-> "set"]}
MCDrafts == {[send |-> {1}, recv |-> {}, active |-> FALSE, conn |-> "set", named |-> TRUE],
             [send |-> {}, recv |-> {1}, active |-> TRUE, conn |-> "unset", named |-> TRUE]}

\* A new partner's row, and one with something in every section.
MCNew == [ids |-> <<>>, flows |-> <<>>, acks |-> <<>>, segments |-> <<>>, slas |-> <<>>,
          contacts |-> <<>>, connectivity |-> Closed]
MCFull ==
  [ids |-> <<"id">>, flows |-> <<[named |-> TRUE, steps |-> <<TRUE, FALSE>>]>>,
   acks |-> "a" :> "wording" @@ "b" :> Blank, segments |-> "a" :> "a" @@ "b" :> "b",
   slas |-> <<[set |-> TRUE, minutes |-> TRUE]>>,
   contacts |-> <<[email |-> TRUE, hook |-> "slack", types |-> {"stale"}]>>,
   connectivity |-> [channel |-> TRUE, endpoint |-> TRUE, tech |-> "email", notes |-> FALSE]]
MCStored == {MCNew, MCFull}

MCSections == columns # Closed

MCInit ==
  /\ Init
  /\ \/ /\ columns = Closed
        /\ listed = [t \in Admins |-> Closed] /\ sheet = listed /\ opened = listed
        /\ changes = 0 /\ savings = 0
     \/ /\ SectionsInit
        /\ \A i \in PartnerIds : partner[i] = NoRow
        /\ \A t \in Tabs : ~InWizard(t)

MCNext == \/ MCSections /\ SectionsNext /\ UNCHANGED vars
          \/ ~MCSections /\ Next /\ UNCHANGED sectionVars

MCSpec == MCInit /\ [][MCNext]_<<vars, sectionVars>>

\* Bound: what happens in one behaviour.  More of it after a torn write, once a
\* setup is complete, and after a failed close, as long as nobody typed.
MCConstraint ==
  LET all == saves + patches + typed + mishaps
  IN /\ changes + savings <= 3
     /\ \/ all <= 3
        \/ typed = 0 /\ torn /\ all <= 5
        \/ typed = 0 /\ hub.complete /\ patches = 3 /\ all <= (IF unclosed = {} THEN 4 ELSE 5)

MCSymmetry == Permutations(Tabs) \cup Permutations(PartnerIds)
=============================================================================
