---------------------------- MODULE Permissions ----------------------------
(***************************************************************************)
(* The permission policy of the runtime (runtime/src/permissions.rs): the  *)
(* ordered permission modes, the mode a tool requires, and the decision    *)
(* authorize takes before a tool call.  The dialogue with the user is      *)
(* split off: AsksUser says when authorize consults the prompter, and the  *)
(* caller chooses the user's answer.                                       *)
(***************************************************************************)
EXTENDS Naturals

CONSTANTS
  Tools,          \* the names of the tools a model may call
  Requirements    \* the registered requirements: a function whose domain is
                  \* a subset of Tools

Modes == {"ReadOnly", "WorkspaceWrite", "DangerFullAccess", "Prompt", "Allow"}

ASSUME RequirementsAssumption ==
  /\ DOMAIN Requirements \subseteq Tools
  /\ \A tool \in DOMAIN Requirements : Requirements[tool] \in Modes

(* The position of a mode in the order derived from its declaration.       *)
Rank(mode) ==
  CASE mode = "ReadOnly"         -> 0
    [] mode = "WorkspaceWrite"   -> 1
    [] mode = "DangerFullAccess" -> 2
    [] mode = "Prompt"           -> 3
    [] mode = "Allow"            -> 4

(* A tool without a registered requirement needs full access.              *)
RequiredMode(tool) ==
  IF tool \in DOMAIN Requirements THEN Requirements[tool]
                                  ELSE "DangerFullAccess"

(* The first test of authorize: the call goes ahead without a question.    *)
Granted(mode, tool) ==
  mode = "Allow" \/ Rank(mode) >= Rank(RequiredMode(tool))

(* The second test: the call is put to the prompter, if there is one.      *)
AsksUser(mode, tool) ==
  /\ ~ Granted(mode, tool)
  /\ \/ mode = "Prompt"
     \/ mode = "WorkspaceWrite" /\ RequiredMode(tool) = "DangerFullAccess"

=============================================================================
