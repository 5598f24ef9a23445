------------------------------ MODULE MCWorkflow ------------------------------
(* Instances of WorkflowEngine: an approval, a rule with a typo, and     *)
(* DESIGN/04's runbook, which collects data for a template.             *)
EXTENDS WorkflowEngine

MCConfig ==
  << <<"approval", "template_render">>,
     <<"condition", "user_input", "add_note", "no_such_type">>,
     <<"user_input", "http_request", "template_render">> >>
=============================================================================
