----------------------------- MODULE MCCloudRuns -----------------------------
(* A small instance of CloudRuns for TLC. *)
EXTENDS CloudRuns

(* The options that matter to an endorsement, one at a time beside         *)
(* --config and --start-cloud-run.                                         *)
OptionsOf(e) ==
  CASE e = "dd" -> {"limit", "noStrict", "strict", "skipVariations", "older"}
    [] e = "core" -> {}
    [] e = "add-edit" -> {"autoPayloads", "mock"}
    [] e = "entity-event" -> {"observe", "full", "mock"}
    [] e = "rcf" -> {"noSchemaValidation", "skipVariations"}

MCCommandLines(e) ==
  {base \cup o : base \in {{}, {"config"}, {"config", "start"}, {"config", "start", "noService"}},
                 o \in {{}} \cup {{x} : x \in OptionsOf(e)}}

FileFlags(e) ==
  CASE e = "dd" -> {{}, {"limit"}, {"noStrict"}}
    [] e = "add-edit" -> {{}, {"payloadsDir"}, {"payloads"}, {"autoPayloads"}}
    [] e = "entity-event" -> {{}, {"payloadsDir"}}
    [] OTHER -> {{}}

MCFileEntries(e) ==
  [version : IF e = "entity-event" THEN {"unset"} ELSE {"unset", "latest", "older"},
   mode : IF e = "entity-event" THEN {"unset", "observe", "full"} ELSE {"unset"},
   flags : FileFlags(e), addressed : BOOLEAN]

==============================================================================
