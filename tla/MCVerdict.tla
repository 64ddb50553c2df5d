----------------------------- MODULE MCVerdict -----------------------------
(* Instances of Verdict: a few obligations, each with the records that     *)
(* make and spoil its proof.                                               *)
EXTENDS Verdict

Blank == [id |-> 0, at |-> 0, kind |-> "", tier |-> "witnessed", test |-> 1, session |-> 0,
          entity |-> "none", op |-> "", fields |-> << >>, volatile |-> {}, observed |-> << >>,
          before |-> [state |-> "none", fields |-> << >>], found |-> TRUE, channel |-> "none",
          declared |-> FALSE, anchor |-> "none", route |-> "match",
          here |-> TRUE, sequence |-> 0, settled |-> TRUE, clean |-> TRUE, rest |-> 0]

MCArchived == [state |-> 7]

Fields(v) == [name |-> v, stamp |-> v]
Named(v) == [name |-> v]
Before(v) == [state |-> "present", fields |-> Fields(v)]

Action(s, e, v) == [Blank EXCEPT !.kind = "ui.action", !.session = s, !.entity = e,
                                 !.op = "update", !.fields = Fields(v), !.anchor = "a1"]
Exchange(s, route) == [Blank EXCEPT !.kind = "http.request", !.session = s, !.route = route]
Visible(s, e, v) == [Blank EXCEPT !.kind = "ui.visible-result", !.session = s, !.entity = e,
                                  !.fields = Named(v)]
Read(s, e, v) == [Blank EXCEPT !.kind = "persistence.entity", !.session = s, !.entity = e,
                               !.fields = [Fields(v) EXCEPT !.stamp = 9], !.before = Before(0),
                               !.volatile = {"stamp"}, !.anchor = "a1"]
Server(e, v) == [Read(0, e, v) EXCEPT !.channel = "server", !.declared = TRUE]
Observed(e, v) == [Read(0, e, v) EXCEPT !.kind = "persistence.observed",
                                             !.channel = "observe", !.observed = Named(1)]
Page(t, n, ok) == [Blank EXCEPT !.kind = "page.observed", !.test = t, !.sequence = n, !.clean = ok]

Labelled(s) == [i \in DOMAIN s |-> [s[i] EXCEPT !.id = i]]

CrudRecords == Labelled(<<
    Action(2, "e1", 1), Action(1, "e1", 1), Exchange(1, "match"), Exchange(2, "mismatch"),
    Visible(1, "e1", 1), Visible(1, "e2", 1), Read(1, "e1", 1), Read(2, "e1", 1),
    Read(1, "e1", 2), Exchange(1, "ambiguous"),
    [Action(1, "e1", 1) EXCEPT !.tier = "claimed"]>>)

PersistenceRecords == Labelled(<<
    [Action(0, "e1", 1) EXCEPT !.tier = "claimed"],
    [Action(0, "e1", 2) EXCEPT !.tier = "claimed", !.anchor = "a2"],
    [Action(0, "broken", 1) EXCEPT !.tier = "forged"],
    Read(0, "e1", 1), [Read(0, "e1", 2) EXCEPT !.anchor = "a2"],
    [Visible(0, "e1", 2) EXCEPT !.anchor = "a2"],
    Server("e1", 1), [Server("e1", 1) EXCEPT !.declared = FALSE], Server("broken", 1),
    Observed("e1", 2), [Observed("e1", 1) EXCEPT !.anchor = "none"],
    [Read(0, "e1", 1) EXCEPT !.tier = "claimed", !.test = 2]>>)

\* Reads for the other operations: created, still there, archived, gone.
StateRecords == Labelled(<<
    [Server("e1", 1) EXCEPT !.before.state = "absent"],
    [Observed("e1", 1) EXCEPT !.before.state = "absent"],
    [Observed("e1", 2) EXCEPT !.before.state = "absent", !.test = 2],
    Server("e2", 1), [Server("e1", 1) EXCEPT !.fields = MCArchived],
    [Server("e1", 1) EXCEPT !.found = FALSE, !.fields = << >>]>>)

PageRecords == Labelled(<<
    Page(1, 1, TRUE), Page(1, 2, FALSE), Page(1, 3, TRUE), [Page(1, 3, TRUE) EXCEPT !.rest = 1],
    Page(2, 1, TRUE), Page(2, 2, TRUE), [Page(2, 2, TRUE) EXCEPT !.settled = FALSE],
    [Page(2, 3, TRUE) EXCEPT !.tier = "claimed"]>>)

AlembicRecords == Labelled(<<
    [Blank EXCEPT !.kind = "alembic.witness"], [Blank EXCEPT !.kind = "alembic.witness", !.clean = FALSE],
    [Blank EXCEPT !.kind = "alembic.witness", !.tier = "claimed"]>>)

Lane(contract) == [contract |-> contract, op |-> "update", archive |-> FALSE, endpoint |-> FALSE,
                   inventory |-> TRUE, classification |-> "business"]

MCObligations ==
    {Lane("crud"), [Lane("crud") EXCEPT !.endpoint = TRUE], Lane("persistence"),
     Lane("page"), Lane("alembic"), [Lane("crud") EXCEPT !.inventory = FALSE],
     [Lane("persistence") EXCEPT !.classification = "internal"],
     [Lane("persistence") EXCEPT !.classification = "none"]}
  \cup {[Lane("persistence") EXCEPT !.op = op, !.archive = a] :
           op \in {"create", "read", "delete"}, a \in BOOLEAN}

MCIssuable ==
    [o \in MCObligations |-> CASE o.op # "update" -> StateRecords
                               [] o.contract = "crud" -> CrudRecords
                               [] o.contract = "persistence" -> PersistenceRecords
                               [] o.contract = "page" -> PageRecords
                               [] o.contract = "alembic" -> AlembicRecords]

PersistenceOnly == {Lane("persistence")}
PersistenceIssuable == [o \in PersistenceOnly |-> PersistenceRecords]
=============================================================================
