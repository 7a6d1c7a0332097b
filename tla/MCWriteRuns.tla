----------------------------- MODULE MCWriteRuns ------------------------------
(***************************************************************************)
(* Runs against a small server: one record of the provider's, three keys   *)
(* for new ones.                                                           *)
(***************************************************************************)
EXTENDS WriteRuns

AddEditRun(actions, createFormats, updateFormats, createKey, updateKey, deleteId, deleteFailsId) ==
  [kind |-> "add-edit", actions |-> actions,
   formats |-> [a \in {"create", "update"} |->
                  IF a = "create" THEN createFormats ELSE updateFormats],
   createKey |-> createKey, updateKey |-> updateKey, deleteId |-> deleteId,
   deleteFailsId |-> deleteFailsId]

theirs == AnyOf(Theirs)

MCRuns ==
  { AddEditRun({"create"}, Formats, {}, None, None, None, None),
    AddEditRun({"create", "delete"}, Formats, {}, None, None, None, Missing),
    AddEditRun({"create", "delete"}, {"minimal"}, {}, theirs, None, theirs, Missing),
    AddEditRun({"create", "update"}, {"minimal"}, Formats, None, None, None, None),
    AddEditRun({"create", "update", "delete"}, {"representation"}, {"minimal"}, None, None, None,
               Missing),
    AddEditRun({"create", "update", "delete"}, {"minimal"}, {"minimal"}, None, theirs, theirs,
               Missing),
    AddEditRun({"update", "delete"}, {}, {"representation"}, None, theirs, theirs, Missing),
    AddEditRun({"update"}, {}, {"minimal"}, None, None, None, None),
    AddEditRun({"update"}, {}, {}, None, theirs, None, None),
    [kind |-> "entity-event", mode |-> "full"],
    [kind |-> "entity-event", mode |-> "observe"] }

=============================================================================
