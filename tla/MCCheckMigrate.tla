---------------------------- MODULE MCCheckMigrate ----------------------------
(* Clusters without a problem, with problems in one or two databases and in  *)
(* excluded schemas, with a library that is missing, and of other versions.  *)
EXTENDS CheckMigrate

MCObject(problem, schema) == [problem |-> problem, schema |-> schema]
MCClean == {}
MCView  == {MCObject("removed-operator", "s")}
MCLibraries == [app |-> <<"lib1", "lib2">>, postgres |-> <<"lib1">>, template1 |-> <<>>]

MCWorld == [
  knownFlags |-> TRUE, flags |-> {"target-host", "target-port"},
  sourcePort |-> 5432, targetHostEmpty |-> FALSE, targetPort |-> 65535,
  database |-> None, sourceVersion |-> 6, targetVersion |-> 7, excluded |-> {},
  databases |-> <<"app", "postgres", "template1">>,
  objects |-> [app |-> MCView, postgres |-> MCClean, template1 |-> MCClean],
  libraries |-> MCLibraries, refused |-> {}]

MCWorlds ==
  {MCWorld,
   [MCWorld EXCEPT !.excluded = {"s"}],
   [MCWorld EXCEPT !.excluded = {"s"}, !.refused = {"lib1"}],
   [MCWorld EXCEPT !.flags = {"debug"}, !.database = "app",
                   !.objects = [MCWorld.objects EXCEPT
                      !.app = {MCObject("removed-column-type", "t"),
                               MCObject("statement-trigger", "s")}],
                   !.excluded = {"s"}],
   [MCWorld EXCEPT !.sourceVersion = 7],
   [MCWorld EXCEPT !.targetVersion = 6],
   [MCWorld EXCEPT !.targetPort = 65536],
   [MCWorld EXCEPT !.flags = {"target-port", "target-user"}],
   [MCWorld EXCEPT !.knownFlags = FALSE]}
=============================================================================
