--------------------------- MODULE TemplateCatalog ---------------------------
(***************************************************************************)
(* What a client may rely on of templates and their builds, whichever      *)
(* writes of the store's file fail and however often the process dies:     *)
(* there is one catalog, it changes by one whole operation at a time, what *)
(* it says is what a lookup finds, ids are used once, and what was         *)
(* answered stays until the template is removed.  TemplateBuilds, with its *)
(* map, its index, its file and its roll-backs, is shown to implement it.  *)
(***************************************************************************)
CONSTANTS
  TemplateIds,   \* the template ids
  BuildIds,      \* the build ids
  Names,         \* the names of templates
  BuiltinName    \* the name of the template that is always there at a start

VARIABLES
  open,      \* clients are served
  used,      \* the ids that have been handed out or made up
  listed,    \* <<template, name>>: the templates there are
  found,     \* <<template, name>>: what looking a name up finds
  recorded,  \* <<template, build>>: the builds of the templates
  ended,     \* the recorded builds whose outcome is recorded
  answered,  \* <<template, build>>: what clients were told of
  removed    \* the templates clients were told are gone

vars == <<open, used, listed, found, recorded, ended, answered, removed>>

Init ==
  /\ \E t \in TemplateIds :
       /\ used = {t}
       /\ listed = {<<t, BuiltinName>>}
       /\ found = listed
  /\ open = TRUE
  /\ recorded = {} /\ ended = {}
  /\ answered = {} /\ removed = {}

(* Outcomes may come late, with whatever is written next, and then stay. *)
OutcomesStay ==
  /\ ended \cap recorded' \subseteq ended'
  /\ ended' \subseteq recorded \cap recorded'

Create(t, n) ==
  /\ t \in TemplateIds \ used
  /\ \A pair \in listed : pair[2] # n
  /\ used' = used \cup {t}
  /\ listed' = listed \cup {<<t, n>>}
  /\ found' = found \cup {<<t, n>>}
  /\ UNCHANGED <<recorded, answered, removed>>

Record(t, b) ==
  /\ \E n \in Names : <<t, n>> \in listed
  /\ b \in BuildIds \ used
  /\ used' = used \cup {b}
  /\ recorded' = recorded \cup {<<t, b>>}
  /\ answered' = answered \cup {<<t, b>>}
  /\ UNCHANGED <<listed, found, removed>>

Remove(t) ==
  /\ \E n \in Names : <<t, n>> \in listed
  /\ listed' = {pair \in listed : pair[1] # t}
  /\ found' = {pair \in found : pair[1] # t}
  /\ recorded' = {pair \in recorded : pair[1] # t}
  /\ removed' = removed \cup {t}
  /\ UNCHANGED <<used, answered>>

(* A client makes up a build id: nobody is handed it any more. *)
MakeUp(b) ==
  /\ used' = used \cup {b}
  /\ UNCHANGED <<listed, found, recorded, answered, removed>>

(* Something else is written, or a write fails. *)
Otherwise ==
  UNCHANGED <<used, listed, found, recorded, answered, removed>>

Serve ==
  /\ open /\ UNCHANGED open
  /\ \/ Otherwise
     \/ \E b \in BuildIds : MakeUp(b)
     \/ \E t \in TemplateIds :
          \/ \E n \in Names : Create(t, n)
          \/ \E b \in BuildIds : Record(t, b)
          \/ Remove(t)
  /\ OutcomesStay

Close ==
  /\ open /\ open' = FALSE
  /\ found' = {}
  /\ UNCHANGED <<used, listed, recorded, ended, answered, removed>>

(* The builtin template is added unless there is one of its name. *)
Open ==
  /\ ~open /\ open' = TRUE
  /\ IF \E pair \in listed : pair[2] = BuiltinName
       THEN UNCHANGED <<used, listed>>
       ELSE \E t \in TemplateIds \ used :
              /\ used' = used \cup {t}
              /\ listed' = listed \cup {<<t, BuiltinName>>}
  /\ found' = listed'
  /\ UNCHANGED <<recorded, ended, answered, removed>>

Next == Serve \/ Close \/ Open

Spec == Init /\ [][Next]_vars
=============================================================================
