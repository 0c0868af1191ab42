--------------------------- MODULE MCDitrixProxy ---------------------------
(* Two calls at once, one of any kind and one of two kinds, since all they   *)
(* share is the state of the build.  The plug-in offers everything, one tool *)
(* twice; or so little that facades are missing, a raw write is served and   *)
(* the configuration is updated without EDT; or only what the guarded write  *)
(* cannot do without.                                                        *)
EXTENDS DitrixProxy, TLC

MCOffers ==
  {<<"list_projects", "get_metadata_details", "get_module_structure", "read_module_source", "read_method_source",
     "search_in_code", "find_references", "get_project_errors", "write_module_source",
     "delete_metadata", "set_variable", "set_variable", "run_yaxunit_tests", "update_configuration",
     "new_tool">>,
   <<"write_module_source", "list_projects", "debug_launch", "start_profiling", "find_references">>,
   <<"write_module_source", "read_module_source">>}

Plain(name) == [name |-> name, op |-> "", depth |-> "standard", project |-> "none",
                directory |-> FALSE, confirm |-> FALSE, dryRun |-> "absent", acceptAll |-> FALSE, pages |-> 1]
Op(name, op, confirm) == [Plain(name) EXCEPT !.op = op, !.confirm = confirm]

AnyRequest ==
  {[Plain("find_references") EXCEPT !.project = "other"],
   [Plain("find_references") EXCEPT !.project = "fixed"],
   [Plain("write_module_source") EXCEPT !.dryRun = "false", !.pages = 2],
   [Op("write_module_source", "replaceMethod", FALSE) EXCEPT !.dryRun = "false"],
   [Plain("set_variable") EXCEPT !.project = "other"],
   Plain("run_tests"), Plain("delete_metadata"), Plain("memory_put"),
   [Plain("delete_metadata") EXCEPT !.directory = TRUE],
   Op("launch_debugger", "setVariable", TRUE), Op("launch_debugger", "launch", FALSE),
   Op("edit_metadata", "delete", FALSE), Op("edit_metadata", "delete", TRUE),
   Op("diagnostics", "measureStart", FALSE), Op("diagnostics", "techlogDisable", FALSE),
   Op("diagnostics", "techlogEnable", TRUE), Op("vanessa", "run", FALSE), Op("vanessa", "run", TRUE),
   Op("update_configuration", "cleanupSources", FALSE), Plain("code_review"),
   Op("update_configuration", "prepareSource", FALSE), Op("update_configuration", "cleanupSources", TRUE),
   Op("update_configuration", "updateVendor", FALSE),
   [Op("update_configuration", "updateVendor", TRUE) EXCEPT !.dryRun = "false", !.acceptAll = TRUE],
   [Op("update_configuration", "updateVendor", FALSE) EXCEPT !.dryRun = "false", !.acceptAll = TRUE],
   [Op("update_configuration", "merge", TRUE) EXCEPT !.dryRun = "false"],
   [Op("update_configuration", "merge", FALSE) EXCEPT !.dryRun = "false"],
   Op("update_configuration", "replayCustomizations", FALSE),
   [Op("ai_context", "object", FALSE) EXCEPT !.depth = "full"],
   Op("code_search", "objectReferences", FALSE), Plain("get_object_help")}

CONSTANTS c1, c2

MCOperations == {a.op : a \in AnyRequest} \cup {"module"}

MCRequests == [c \in Calls |->
  IF c = c1 THEN AnyRequest
  ELSE {Plain("set_variable"), [Op("ai_context", "module", FALSE) EXCEPT !.depth = "minimal"]}]
=============================================================================
