------------------------------- MODULE Palette -------------------------------
(***************************************************************************)
(* The command palette of the terminal interface: verbs, their forms, and    *)
(* the pickers that fill the fields of a form from data that is fetched when *)
(* a picker opens (src/tui/verbs.ts, picker.ts, and their use in app.ts and  *)
(* data.ts).                                                                 *)
(*                                                                          *)
(* A verb stands for all whose fields are among its own (logsFollow for what   *)
(* takes a target, or a target and a command), and fields that are typed, not  *)
(* picked, are left out.  So is what a query narrows a picker to: any row can  *)
(* be chosen.                                                                *)
(***************************************************************************)
EXTENDS Sidebar

CONSTANTS
    RepoLists,      (* what repo.list may answer: functions from repositories  *)
                    (* to their checkouts and playbooks                        *)
    PlaybookOf,     (* the playbook of each target                             *)
    CommandsOf,     (* the labels of its commands                              *)
    MaxOpened,      (* bounds: how often the palette is opened,                *)
    MaxFlying       (* and requests that are not answered                      *)

ASSUME PaletteAssumption ==
    /\ {MaxOpened, MaxFlying} \subseteq Nat
    \* A path is never empty.
    /\ \A s \in Slugs : RepoPath[s] # ""
    /\ \A list \in RepoLists : "" \notin DOMAIN list

VARIABLES
    mode,           \* "browse", "palette", "form", "picker"
    prefilled,      \* the target the palette was opened on, or Nobody
    form,           \* a verb, the values of its fields, the field with the focus
    repos,          \* the answer to repo.list and the session it was asked in
    commands,       \* the labels of one target, and the session they were asked in
    askedRepos, askedCommands, generation,
    flying          \* requests for picker data that are not answered

paletteVars == <<mode, prefilled, form, repos, commands, askedRepos, askedCommands,
                 generation, flying>>
cacheVars == <<repos, commands, askedRepos, askedCommands, flying>>

-----------------------------------------------------------------------------
(* verbs.ts *)

Field(name, kind, scope, required) ==
    [name |-> name, kind |-> kind, scope |-> scope, required |-> required]

target == Field("target", "target", "", TRUE)
command == Field("command", "label", "target", FALSE)

VERBS == [
    daemonStatus |-> <<>>,
    logsFollow |-> <<target, command>>,
    targetAdd |-> <<Field("repoPath", "repo", "", TRUE),
                    Field("checkoutPath", "checkout", "repoPath", TRUE),
                    Field("playbookName", "playbook", "repoPath", TRUE)>>]

FieldNamed(verb, name) == CHOOSE f \in Range(VERBS[verb]) : f.name = name

\* seedValues: read off the target, if there is one.
seedValues(verb, slug) ==
    [name \in {f.name : f \in Range(VERBS[verb])} |->
        IF name = "target" /\ slug # Nobody THEN slug
        ELSE IF name = "repoPath" /\ slug \in Range(targets) THEN RepoPath[slug]
        ELSE IF name = "playbookName" /\ slug \in Range(targets) THEN PlaybookOf[slug]
        ELSE ""]

\* The first of some fields of a form, else a given one.
FirstField(fields, else) == IF fields = {} THEN else ELSE Min(fields)

missing(verb, values) ==
    {i \in DOMAIN VERBS[verb] : VERBS[verb][i].required /\ values[VERBS[verb][i].name] = ""}

-----------------------------------------------------------------------------
(* picker.ts *)

\* buildItems: nothing while the data is not there, or is another scope's.
buildItems(kind, scope) ==
    IF kind = "repo" THEN DOMAIN repos.data
    ELSE IF kind = "target" THEN Range(targets)
    ELSE IF kind = "label" THEN IF commands.scope = scope THEN commands.data ELSE {}
    ELSE IF scope \in DOMAIN repos.data THEN repos.data[scope][kind] ELSE {}

\* Mistake: what cannot be looked up is kept.
applyKeepingUnknown(verb, values, name, value) ==
    [n \in DOMAIN values |->
        LET f == FieldNamed(verb, n) IN
        IF n = name THEN value
        ELSE IF f.scope = name /\ buildItems(f.kind, value) # {}
                               /\ values[n] \notin buildItems(f.kind, value) THEN ""
        ELSE values[n]]

\* A field is emptied unless it is known to belong to what its scope is now.  (No
\* verb has a field whose scope has a scope.)
applyFieldValue(verb, values, name, value) ==
    [n \in DOMAIN values |->
        LET f == FieldNamed(verb, n) IN
        IF n = name THEN value
        ELSE IF f.scope = name /\ values[n] \notin buildItems(f.kind, value) THEN ""
        ELSE values[n]]

-----------------------------------------------------------------------------
(* data.ts usePickerCache *)

NoData == <<>>
IdleRepos == [data |-> NoData, asked |-> 0]
IdleCommands == [scope |-> "", data |-> {}, asked |-> 0]

\* load: each answer once in a session; the commands of a target that runs are known.
Load(kind, scope) ==
    \/ /\ kind \in {"repo", "checkout", "playbook"} /\ ~askedRepos
       /\ askedRepos' = TRUE
       /\ repos' = [data |-> NoData, asked |-> generation]
       /\ flying' = flying \cup {[ask |-> "repos", slug |-> Nobody, gen |-> generation]}
       /\ UNCHANGED <<commands, askedCommands>>
    \/ /\ kind = "label" /\ scope \notin {"", askedCommands}
       /\ askedCommands' = scope
       /\ \/ /\ scope \in Range(targets)
             /\ commands' = [scope |-> scope, data |-> CommandsOf[scope], asked |-> generation]
             /\ UNCHANGED flying
          \/ /\ commands' = [scope |-> scope, data |-> {}, asked |-> generation]
             /\ flying' = flying \cup {[ask |-> "commands", slug |-> scope, gen |-> generation]}
       /\ UNCHANGED <<repos, askedRepos>>
    \/ /\ \/ kind \in {"repo", "checkout", "playbook"} /\ askedRepos
          \/ kind = "label" /\ scope \in {"", askedCommands}
          \/ kind = "target"
       /\ UNCHANGED cacheVars

ForThisSession(request) == request.gen = generation

Answer(request) ==
    /\ flying' = flying \ {request}
    /\ \/ ~ForThisSession(request) /\ UNCHANGED <<repos, commands, askedRepos, askedCommands>>
       \/ /\ ForThisSession(request) /\ request.ask = "repos"
          /\ \/ /\ repos' \in [data : RepoLists, asked : {request.gen}]
                /\ UNCHANGED askedRepos
             \/ repos' = IdleRepos /\ askedRepos' = FALSE
          /\ UNCHANGED <<commands, askedCommands>>
       \/ /\ ForThisSession(request) /\ request.ask = "commands"
          /\ \/ /\ commands' = [scope |-> request.slug, data |-> CommandsOf[request.slug],
                                asked |-> request.gen]
                /\ UNCHANGED askedCommands
             \/ /\ commands' = [scope |-> request.slug, data |-> {}, asked |-> request.gen]
                /\ askedCommands' = ""
          /\ UNCHANGED <<repos, askedRepos>>
    /\ UNCHANGED <<mode, prefilled, form, generation, sidebarVars>>

-----------------------------------------------------------------------------
(* app.ts: keys and clicks *)

NoForm == [verb |-> "none"]

\* openPalette and reset, with ':' or from the menu of a row.
OpenPalette(slug) ==
    /\ generation < MaxOpened /\ generation' = generation + 1
    /\ slug = Nobody => mode = "browse"
    /\ prefilled' = slug
    /\ selected' = IF slug = Nobody THEN selected ELSE slug
    /\ mode' = "palette" /\ form' = NoForm
    /\ repos' = IdleRepos /\ commands' = IdleCommands
    /\ askedRepos' = FALSE /\ askedCommands' = ""
    /\ UNCHANGED <<flying, listVars, uiVars, mouseVars>>

ToMode(from, to) ==
    /\ mode = from /\ mode' = to
    /\ UNCHANGED <<prefilled, cacheVars, generation, sidebarVars>>

Escape ==
    \/ ToMode("palette", "browse") /\ UNCHANGED form
    \/ ToMode("form", "palette") /\ form' = NoForm
    \/ ToMode("picker", "form") /\ UNCHANGED form

\* A verb without fields is run at once.
StartVerb(verb) ==
    LET slug == IF prefilled # Nobody THEN prefilled ELSE selected
        values == seedValues(verb, slug)
    IN \/ VERBS[verb] = <<>> /\ ToMode("palette", "browse") /\ UNCHANGED form
       \/ /\ VERBS[verb] # <<>> /\ ToMode("palette", "form")
          /\ form' = [verb |-> verb, values |-> values,
                      field |-> FirstField(missing(verb, values), 1)]

FieldAt(i) == VERBS[form.verb][i]
Scope(f) == IF f.scope = "" THEN "" ELSE form.values[f.scope]

\* openPicker: a click on a field, or a key that is typed into it.
OpenPicker(i) ==
    /\ mode = "form" /\ mode' = "picker"
    /\ Cardinality(flying) < MaxFlying
    /\ Load(FieldAt(i).kind, Scope(FieldAt(i)))
    /\ form' = [form EXCEPT !.field = i]
    /\ UNCHANGED <<prefilled, generation, sidebarVars>>

\* writeField
WriteField(i, value) ==
    LET values == applyFieldValue(form.verb, form.values, FieldAt(i).name, value)
        empty == {j \in DOMAIN VERBS[form.verb] : j > i /\ values[FieldAt(j).name] = ""}
    IN form' = [form EXCEPT !.values = values,
                            !.field = IF value = "" THEN @ ELSE FirstField(empty, i)]

\* choosePick: a row of the picker as it is drawn.
ChoosePick ==
    /\ \E value \in buildItems(FieldAt(form.field).kind, Scope(FieldAt(form.field))) :
          WriteField(form.field, value)
    /\ ToMode("picker", "form")

Backspace == WriteField(form.field, "") /\ ToMode("form", "form")

Tab ==
    LET count == Len(VERBS[form.verb]) IN
    \E i \in {1 + (form.field % count), 1 + ((form.field - 2) % count)} :
        form' = [form EXCEPT !.field = i] /\ ToMode("form", "form")

\* submitForm: a request to the daemon, or what the log pane follows.
Submit ==
    /\ mode = "form" /\ mode' = "browse" /\ form' = NoForm
    /\ missing(form.verb, form.values) = {}
    /\ selected' = IF form.verb = "logsFollow" THEN form.values["target"] ELSE selected
    /\ UNCHANGED <<prefilled, cacheVars, generation, listVars, uiVars, mouseVars>>

\* Enter on a form: an empty required field opens its picker.
Enter == IF form.field \in missing(form.verb, form.values) THEN OpenPicker(form.field)
                                                           ELSE Submit

-----------------------------------------------------------------------------

PaletteInit ==
    /\ mode = "browse" /\ prefilled = Nobody /\ form = NoForm
    /\ repos = IdleRepos /\ commands = IdleCommands
    /\ askedRepos = FALSE /\ askedCommands = ""
    /\ generation = 0 /\ flying = {}

PaletteNext ==
    \/ \E slug \in Range(VisibleSlugs) \cup {Nobody} : OpenPalette(slug)
    \/ \E request \in flying : Answer(request)
    \/ Escape
    \/ \E verb \in DOMAIN VERBS : StartVerb(verb)
    \/ /\ form # NoForm
       /\ \E i \in DOMAIN VERBS[form.verb] : OpenPicker(i)
    \/ form # NoForm /\ (ChoosePick \/ Backspace \/ Tab)
    \/ form # NoForm /\ mode = "form" /\ Enter

-----------------------------------------------------------------------------

\* What some list says of a repository, and what the targets of it say.
ListedFor(kind, scope) ==
    UNION {list[scope][kind] : list \in {l \in RepoLists : scope \in DOMAIN l}}
SeededFor(scope) == {PlaybookOf[s] : s \in {t \in Slugs : RepoPath[t] = scope}}

\* What belongs to a scope.  The repository of a target need not be a registered one,
\* nor need its playbook be listed any more: the two belong together all the same.
Belonging(kind, scope) ==
    IF kind = "label" THEN CommandsOf[scope]
    ELSE IF kind = "playbook" THEN ListedFor(kind, scope) \cup SeededFor(scope)
    ELSE ListedFor(kind, scope)

\* "A half-changed form cannot submit a checkout from one repo with a playbook
\* from another": what is in a scoped field belongs to what its scope is now; and a
\* picker offers only what was answered to this session of the palette, in whatever
\* order answers, keys and refreshes come.
FormsAgree ==
    /\ form # NoForm => \A f \in Range(VERBS[form.verb]) :
          f.scope # "" /\ form.values[f.name] # "" =>
              /\ form.values[f.scope] # ""
              /\ form.values[f.name] \in Belonging(f.kind, form.values[f.scope])
    /\ repos.asked \in {0, generation} /\ commands.asked \in {0, generation}

=============================================================================
