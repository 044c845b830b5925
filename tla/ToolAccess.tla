------------------------------- MODULE ToolAccess -------------------------------
(***************************************************************************)
(* What a token can see and call of the gateway's tools.  Tools come in    *)
(* groups; the instance switches groups off when it starts, and a token    *)
(* switches off more of them, in its row.  A request works with the row    *)
(* that Bearer found.  A client learns of tools from the list of tools,    *)
(* the instructions, the list of cards and the template of cards for old   *)
(* clients, and it should be told of what it can use and of nothing else.  *)
(***************************************************************************)
EXTENDS Integers

CONSTANTS
    Groups,      \* the groups of toolgroups.All
    Exec,        \* that of the command tools
    Specialized, \* groups the instructions speak of only as better than exec
    Requests     \* requests of one token

ASSUME AccessConstantsOK == Exec \in Groups /\ Specialized \subseteq Groups \ {Exec}

VARIABLES
    instance, \* groups in ONESSH_DISABLED_TOOLS
    apps,     \* whether cards are switched on
    token,    \* the row: a list of groups, or what another version has left there
    request   \* each request: where it is, the row it found, and its answer

accessVars == <<instance, apps, token, request>>

\* A group stands for its tools: all that follows treats them alike.
Methods == {"initialize", "tools/list", "resources/list", "templates/list",
            "tools/call", "resources/read"}
Lists   == [kind : {"list"}, groups : SUBSET Groups]
Idle    == [at |-> "idle"]

AccessInit ==
    /\ instance \in SUBSET Groups
    /\ apps \in BOOLEAN
    /\ token \in Lists
    /\ request = [q \in Requests |-> Idle]

\* Names that are no groups are refused before they are stored.
UpdateToken ==
    /\ token' \in Lists
    /\ UNCHANGED <<instance, apps, request>>

\* The database has been served by a version with other groups, or holds null; or the row goes.
ChangeOutside ==
    /\ token' \in [kind : {"unknown", "null", "gone"}, groups : {{}}]
    /\ UNCHANGED <<instance, apps, request>>

-----------------------------------------------------------------------------
(* One request *)

\* A row that cannot be decoded authorises nobody.
Bearer(q) ==
    /\ request[q].at = "idle"
    /\ request' = [request EXCEPT ![q] =
          IF token.kind \in {"null", "gone"} THEN [at |-> "unauthorized"]
          ELSE [at |-> "begun", found |-> token]]
    /\ UNCHANGED <<instance, apps, token>>

\* Mutated EffectiveDisabled: an unknown group is passed over.
FailOpen(found) == instance \cup found.groups

\* A group that is not known switches off everything; a token opens nothing again.
EffectiveDisabled(found) ==
    instance \cup (IF found.kind = "unknown" THEN Groups ELSE found.groups)

Registered == Groups \ instance
Cards      == IF apps THEN Registered ELSE {}

\* Sections of the instructions whose groups are on.
ServerInstructions(disabled) ==
    LET on == Groups \ disabled
    IN IF Exec \in on THEN on ELSE on \ Specialized

FilterTools(disabled) == Registered \ disabled

FilterResources(disabled) == Cards \ disabled

HasPermittedApp(disabled) == Cards \ disabled # {}

\* The template is one for all cards.
FilterTemplates(disabled) ==
    IF disabled # {} /\ ~HasPermittedApp(disabled) THEN {} ELSE Cards

\* What comes back: groups that the answer speaks of, or the one that was used, or none.
AnswerTo(method, g, disabled) ==
    CASE method = "initialize"     -> ServerInstructions(disabled)
      [] method = "tools/list"     -> FilterTools(disabled)
      [] method = "resources/list" -> FilterResources(disabled)
      [] method = "templates/list" -> FilterTemplates(disabled)
      [] method = "tools/call"     -> {g} \cap (Registered \ disabled)
      [] method = "resources/read" -> {g} \cap (Cards \ disabled)

\* A list is not asked about one of them.
Asked(method) == IF method \in {"tools/call", "resources/read"} THEN Groups ELSE {Exec}

\* The middleware around the SDK's handler.
Handle(q) ==
    /\ request[q].at = "begun"
    /\ \E method \in Methods : \E g \in Asked(method) :
          request' = [request EXCEPT ![q] =
             [at |-> "answered", found |-> request[q].found, method |-> method, asked |-> g,
              groups |-> AnswerTo(method, g, EffectiveDisabled(request[q].found))]]
    /\ UNCHANGED <<instance, apps, token>>

AccessNext ==
    \/ UpdateToken \/ ChangeOutside
    \/ \E q \in Requests : Bearer(q) \/ Handle(q)

AccessSpec == AccessInit /\ [][AccessNext]_accessVars

-----------------------------------------------------------------------------
Told(q) == request[q].at = "answered" /\ request[q].method \notin {"tools/call", "resources/read"}
Tried(q, method) == request[q].at = "answered" /\ request[q].method = method

\* A client is told of a tool only where the call goes through, and of cards only where one can be
\* read; a call the list has no tool for is refused.  This holds between any two requests that
\* found the same row, and an unreadable row opens nothing.
AccessTruthful ==
    /\ \A p, q \in Requests :
          Told(p) /\ Tried(q, "tools/call") /\ request[p].found = request[q].found =>
             /\ request[p].method \in {"initialize", "tools/list"} =>
                   (request[q].asked \in request[p].groups => request[q].groups # {})
             /\ request[p].method = "tools/list" =>
                   (request[q].asked \notin request[p].groups => request[q].groups = {})
    /\ \A p, q \in Requests :
          Told(p) /\ Tried(q, "resources/read") /\ request[p].found = request[q].found =>
             /\ request[p].method = "resources/list" /\ request[q].asked \in request[p].groups =>
                   request[q].groups # {}
             /\ request[p].method = "templates/list" /\ request[p].groups = {} =>
                   request[q].groups = {}
    /\ \A p \in Requests : Tried(p, "templates/list") /\ request[p].groups # {} =>
          \E g \in Groups : AnswerTo("resources/read", g, EffectiveDisabled(request[p].found)) # {}
    /\ \A q \in Requests : request[q].at = "answered" =>
          /\ request[q].groups \cap instance = {}
          /\ request[q].found.kind = "unknown" => request[q].groups = {}

=============================================================================
