---------------------------- MODULE MCAreaConfig ----------------------------
(***************************************************************************)
(* Documents for AreaConfig: all short sequences of a few models and       *)
(* builds, in and out of order, and all short sequences of guards with     *)
(* whole, missing and blank fields.                                        *)
(***************************************************************************)
EXTENDS AreaConfig, SequencesExt

Model(id, items) == [tag |-> "Modol", empty |-> FALSE, id |-> id, items |-> items]
EmptyModel == [tag |-> "Modol", empty |-> TRUE, id |-> 0, items |-> <<>>]
BuildAt(ipid, begin, end, modid) ==
  [tag |-> "BuildList", fields |-> <<ipid, begin, end, modid>>]

OneCell == <<<<1, 1, 1, 3, 1, 2, 1, 1, Absent>>>>
TwoCells == <<<<1, 1, 1, 2, 1, 4, 1, 2, 1>>, <<2, 3, 1, 2, 1, 2, Absent, 1, 0>>>>

\* Two models share a number; the build with a blank field is read as one of
\* model 0, its fields shifted by it.
BuildElements ==
  {Model(1, OneCell), Model(2, TwoCells), Model(2, OneCell), EmptyModel,
   BuildAt(1, 1, 1, 1), BuildAt(1, 2, 2, 1), BuildAt(1, 3, 4, 2), BuildAt(2, 5, 5, 2),
   BuildAt(Blank, 2, 2, 1)}

GuardFields == {<<1, 1, 2>>, <<2, Absent, 3>>, <<1, Blank, 4>>}
GuardElements ==
  {[tag |-> GuardTag[g], fields |-> f] : g \in {MANAGE, AREAGATE, GUARD}, f \in GuardFields}

NetItemAt(ipid, start, gw) ==
  [tag |-> "NETITEM", IPID |-> ipid, netStart |-> start, netGW |-> gw]
Net1 == NetItemAt(1, <<2, 0>>, <<2, 1>>)
Net2 == NetItemAt(2, <<3, 9>>, <<0, 0>>)
DevName == [tag |-> "DEVNAME"]

MCDocuments ==
  BoundedSeq(BuildElements, 4)
  \cup {guards \o rest : guards \in BoundedSeq(GuardElements, 3),
                         rest \in {<<Net1>>, <<DevName, Net1, Net2>>}}
=============================================================================
