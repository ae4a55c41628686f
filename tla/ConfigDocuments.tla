--------------------------- MODULE ConfigDocuments ---------------------------
(***************************************************************************)
(* From a project manifest to the contents of its configuration files:     *)
(* the manifest's validation (agent/portforge_agent/manifest.py), the host *)
(* and allocation it is applied with (project_adapter.py,                  *)
(* verify_allocation_ownership) and the edits of dotenv, Compose and       *)
(* Kubernetes files (dotenv_editor.py, compose_editor.py, k8s_editor.py)   *)
(* that `config plan` prepares, apply writes and rollback takes back.      *)
(*                                                                         *)
(* ConfigMutation has the processes, the user and the failures around      *)
(* these edits, and takes an edited file to be the user's text with the    *)
(* allocation's ports in it; this module is about that step.               *)
(***************************************************************************)
EXTENDS Naturals, Sequences, FiniteSets, ProjectFiles

CONSTANTS
    KindOf,         \* what each file is: dotenv, compose or kubernetes
    Manifest,       \* portforge.yml, as it may be written
    Reply,          \* Central's reply to GET of the allocation
    Listing,        \* the hosts Central lists
    Tree,           \* the project's files before the first plan
    HostId,         \* target.host values that are UUIDs
    EnvKey,         \* valid environment variable names
    Protocol,       \* tcp and udp, in lower case
    WorkloadKind,   \* SUPPORTED_WORKLOAD_KINDS
    NodePortRange,  \* DEFAULT_NODEPORT_RANGE
    MaxPort,        \* 65535
    MaxPorts, MaxFiles, MaxMapped, \* the manifest's limits
    Service,        \* the names of services in Compose files
    NoPort, NoTarget, NoNamespace, NoList, NoAnchor

Kind == {"dotenv", "compose", "kubernetes"}

ASSUME KindAssumption == KindOf \in [File -> Kind]
ASSUME MaxPortAssumption == MaxPort \in Nat /\ NodePortRange \subseteq 1..MaxPort
ASSUME LimitAssumption == MaxPorts \in Nat /\ MaxFiles \in Nat /\ MaxMapped \in Nat

-----------------------------------------------------------------------------
(* Documents.  A dotenv file is a sequence of assignments; neat tells      *)
(* whether a line is laid out as the editor would write it.                *)
Assignment == [key: STRING, value: Nat, neat: BOOLEAN]

(* A Compose file has for each service its list of ports.  Services whose  *)
(* ports are one YAML list, by an alias or a merge key, name the same one; *)
(* a service without a list would take the first one given to a service    *)
(* whose mapping it merges.  Entries the parser does not make out (a       *)
(* variable, a range, a target that is no integer) are not readable.  An   *)
(* entry that is a mapping may stand, as an alias of one anchor, in        *)
(* several places; one that is a string is replaced in its place only.     *)
Publication == [readable: BOOLEAN, container: Nat, protocol: STRING,
                port: Nat \cup {NoPort}, anchor: STRING \cup {NoAnchor}]
ServicePorts == [list: Service \cup {NoList}, takes: SUBSET Service,
                 ports: Seq(Publication)]

(* A Kubernetes file is a sequence of resources, each with its containers  *)
(* and their ports; a Service has the ports of its spec, as if in one      *)
(* container.  Here, too, an entry may stand in several places.            *)
PortEntry == [container: Nat, match: Nat, protocol: STRING,
              port: Nat \cup {NoPort}, anchor: STRING \cup {NoAnchor}]
Workload == [kind: STRING, name: STRING, ns: STRING, containers: Seq(STRING),
             ports: Seq(PortEntry), exposable: BOOLEAN]

(* The places of a document, and what is in each.                          *)
Places(kind, doc) ==
    IF kind = "dotenv" THEN DOMAIN doc
    ELSE UNION {{<<x, i>> : i \in DOMAIN doc[x].ports} : x \in DOMAIN doc}

At(kind, doc, p) == IF kind = "dotenv" THEN doc[p] ELSE doc[p[1]].ports[p[2]]

SameAnchor(a, b) == a.anchor = b.anchor /\ a.anchor # NoAnchor

(* Two places of a file are one object of the parsed YAML.                 *)
OneNode(kind, doc, p, q) ==
    CASE kind = "dotenv" -> p = q
      [] kind = "compose" ->
            \/ doc[p[1]].list = doc[q[1]].list /\ p[2] = q[2]
            \/ SameAnchor(At(kind, doc, p), At(kind, doc, q))
      [] kind = "kubernetes" ->
            /\ p[1] = q[1]
            /\ p[2] = q[2] \/ SameAnchor(At(kind, doc, p), At(kind, doc, q))

(* What one object has in all its places.                                  *)
NodeValue(kind, x) == IF kind = "kubernetes" THEN [x EXCEPT !.container = 0] ELSE x

NodesAgree(kind, doc) ==
    \A p, q \in Places(kind, doc) : OneNode(kind, doc, p, q) =>
        NodeValue(kind, At(kind, doc, p)) = NodeValue(kind, At(kind, doc, q))

(* A list is named after one of the services that have it.                 *)
ListsAgree(doc) ==
    \A s \in DOMAIN doc :
        IF doc[s].list = NoList THEN doc[s].ports = <<>>
        ELSE /\ doc[s].list \in DOMAIN doc
             /\ doc[doc[s].list].list = doc[s].list
             /\ doc[doc[s].list].ports = doc[s].ports

IsDocument(kind, doc) ==
    CASE kind = "dotenv" -> doc \in Seq(Assignment)
      [] kind = "compose" -> /\ \E S \in SUBSET Service : doc \in [S -> ServicePorts]
                             /\ ListsAgree(doc) /\ NodesAgree(kind, doc)
      [] kind = "kubernetes" -> doc \in Seq(Workload) /\ NodesAgree(kind, doc)

(* A mapping lists what to write into one file: each entry names a place   *)
(* and the port request whose port is written there.                       *)
Entry(kind) ==
    CASE kind = "dotenv" -> [key: STRING, allocation: STRING]
      [] kind = "compose" ->
            [service: STRING, container: Nat, protocol: STRING, allocation: STRING]
      [] kind = "kubernetes" ->
            [kind: STRING, ns: STRING \cup {NoNamespace}, name: STRING, container: STRING,
             match: Nat, protocol: STRING, allocation: STRING]

(* The values of a dotenv mapping are a dict: no key is in it twice.       *)
IsMapping(m) ==
    /\ m.file \in File
    /\ m.entries \in Seq(Entry(KindOf[m.file]))
    /\ KindOf[m.file] = "dotenv" =>
          \A i, j \in DOMAIN m.entries : m.entries[i].key = m.entries[j].key => i = j

IsTree(t) ==
    /\ t = [f \in File |-> t[f]]
    /\ \A f \in File : t[f] # Absent => IsDocument(KindOf[f], t[f])

ASSUME NoListAssumption == NoList \notin Service
ASSUME NoDocumentAssumption == \A kind \in Kind : ~IsDocument(kind, Absent)
ASSUME TreeAssumption == \A t \in Tree : IsTree(t)
ASSUME ReplyAssumption == \A r \in Reply : r.ports \in [DOMAIN r.ports -> Nat]

ASSUME ManifestAssumption ==
    \A m \in Manifest :
        /\ Len(m.config) \in Nat /\ DOMAIN m.config = 1..Len(m.config)
        /\ \A k \in DOMAIN m.config : IsMapping(m.config[k])

VARIABLES
    manifest, reply, listing, \* what the commands are given
    stage,   \* how far the commands have come
    tree,    \* the content of each file, Absent without it
    draft,   \* the document under edit, its mapping and the entries done
    plan,    \* the files planned so far, in order
    copies,  \* the copies apply has made
    replan,  \* the plan is the one after apply
    original \* history: the files before apply

given == <<manifest, reply, listing>>
docvars == <<manifest, reply, listing, stage, tree, draft, plan, copies, replan, original>>

NoDraft == [mapping |-> 0, doc |-> Absent, done |-> 0]

CopyNames == {BackupName[f] : f \in File}

DocumentsInit ==
    /\ manifest \in Manifest /\ reply \in Reply /\ listing \in Listing
    /\ tree \in Tree
    /\ original = tree
    /\ stage = "start"
    /\ draft = NoDraft
    /\ plan = <<>>
    /\ copies = [n \in CopyNames |-> Absent]
    /\ replan = FALSE

-----------------------------------------------------------------------------
(* The manifest: its port requests by name and, in `config`, a sequence of *)
(* file mappings, each with the entries to write.  An entry names what it  *)
(* is written to and the request whose port is written.                    *)

Requests == DOMAIN manifest.ports

PortNumber == 1..MaxPort

(* A range is <<>> when none is requested; preferred likewise NoPort.      *)
ValidPort(r) ==
    /\ r.protocol \in Protocol
    /\ r.preferred \in PortNumber \cup {NoPort}
    /\ r.range # <<>> =>
          /\ r.range[1] \in PortNumber /\ r.range[2] \in PortNumber
          /\ r.range[1] <= r.range[2]
          /\ r.preferred # NoPort => r.preferred \in r.range[1]..r.range[2]

ValidDotenv(e) == e.key \in EnvKey /\ e.allocation \in Requests

ValidCompose(e) ==
    /\ e.container \in PortNumber /\ e.protocol \in Protocol
    /\ e.allocation \in Requests

(* A nodePorts entry is one of kind Service; a namespace is only used to   *)
(* tell resources apart.                                                   *)
ValidHostPort(e) ==
    /\ e.kind \in WorkloadKind
    /\ e.match \in PortNumber /\ e.protocol \in Protocol
    /\ e.allocation \in Requests

ValidNodePort(e) ==
    /\ e.kind = "Service"
    /\ e.match \in PortNumber /\ e.protocol \in Protocol
    /\ e.allocation \in Requests

Location(e) == [kind |-> e.kind, ns |-> e.ns, name |-> e.name,
                container |-> e.container, match |-> e.match, protocol |-> e.protocol]

(* seen_hostports and seen_nodeports.                                      *)
NoDuplicates(m) ==
    \A i, j \in DOMAIN m.entries :
        Location(m.entries[i]) = Location(m.entries[j]) => i = j

ValidKubernetes(m) ==
    /\ \A i \in DOMAIN m.entries : ValidHostPort(m.entries[i]) \/ ValidNodePort(m.entries[i])
    /\ NoDuplicates(m)

ValidMapping(m) ==
    /\ Len(m.entries) \in 1..MaxMapped
    /\ CASE KindOf[m.file] = "dotenv" -> \A i \in DOMAIN m.entries : ValidDotenv(m.entries[i])
         [] KindOf[m.file] = "compose" -> \A i \in DOMAIN m.entries : ValidCompose(m.entries[i])
         [] KindOf[m.file] = "kubernetes" -> ValidKubernetes(m)

Mapped(kind) == {k \in DOMAIN manifest.config : KindOf[manifest.config[k].file] = kind}

ValidConfig ==
    /\ \A kind \in Kind : Cardinality(Mapped(kind)) <= MaxFiles
    /\ \A i \in DOMAIN manifest.config : ValidMapping(manifest.config[i])

ValidManifest ==
    /\ manifest.version = 1
    /\ Requests = {} => manifest.target = NoTarget
    /\ \A n \in Requests : ValidPort(manifest.ports[n])
    /\ Cardinality(Requests) <= MaxPorts
    /\ ValidConfig

(* config plan reads and validates the manifest.                           *)
LoadManifest ==
    /\ stage = "start"
    /\ stage' = IF ValidManifest THEN "loaded" ELSE "refused"
    /\ UNCHANGED <<given, tree, draft, plan, copies, replan, original>>

(* The manifest is missing, too large or not YAML, or has an unknown field *)
(* or a value of another type.                                             *)
ManifestUnreadable ==
    /\ stage = "start"
    /\ stage' = "refused"
    /\ UNCHANGED <<given, tree, draft, plan, copies, replan, original>>

-----------------------------------------------------------------------------
(* The host and the allocation.                                            *)

(* resolve_host_ref: a UUID is looked up by id, anything else by name.     *)
Resolved ==
    {h \in listing : IF manifest.target \in HostId
                     THEN h.id = manifest.target ELSE h.name = manifest.target}

Mappings == {manifest.config[k] : k \in DOMAIN manifest.config}
Entries(m) == {m.entries[i] : i \in DOMAIN m.entries}

Referenced == {e.allocation : e \in UNION {Entries(m) : m \in Mappings}}

(* A name added to the manifest since the allocation was made is not in    *)
(* the allocation.                                                         *)
Covered(ports) == Referenced \subseteq DOMAIN ports

(* verify_allocation_ownership.                                            *)
OwnAllocation ==
    /\ reply.status = "active"
    /\ reply.project = manifest.project
    /\ \E h \in Resolved : Resolved = {h} /\ reply.host = h.id
    /\ Covered(reply.ports)

(* A manifest without mappings has nothing to plan (build_plan).           *)
CheckAllocation ==
    /\ stage = "loaded"
    /\ stage' = IF OwnAllocation /\ manifest.config # <<>> THEN "planning" ELSE "refused"
    /\ UNCHANGED <<given, tree, draft, plan, copies, replan, original>>

-----------------------------------------------------------------------------
(* The editors.  Each returns the set of the edited document, empty when   *)
(* the edit is refused.                                                    *)

Assignments(doc, key) == {i \in DOMAIN doc : doc[i].key = key}

(* Mutant of Assigned: the first assignment of a repeated key is updated.  *)
AssignedFirst(doc, e, port) ==
    LET at == Assignments(doc, e.key)
        line == [key |-> e.key, value |-> port, neat |-> TRUE]
    IN  IF at = {} THEN {Append(doc, line)}
        ELSE {[doc EXCEPT ![CHOOSE i \in at : \A j \in at : i <= j] = line]}

Assigned(doc, e, port) ==
    LET at == Assignments(doc, e.key)
        line == [key |-> e.key, value |-> port, neat |-> TRUE]
    IN  IF at = {} THEN {Append(doc, line)}
        ELSE {[doc EXCEPT ![i] = line] : i \in {i \in at : at = {i}}}

(* What the parser does not make out matches nothing.                      *)
Published(ports, e) ==
    {i \in DOMAIN ports : /\ ports[i].readable
                          /\ ports[i].container = e.container
                          /\ ports[i].protocol = e.protocol}

(* The port of one place is set, in the object that is parsed there: every *)
(* place that is the same object changes with it.                          *)
Rewritten(kind, doc, p, port) ==
    [x \in DOMAIN doc |-> [doc[x] EXCEPT !.ports =
        [i \in DOMAIN doc[x].ports |->
            IF OneNode(kind, doc, p, <<x, i>>)
            THEN [doc[x].ports[i] EXCEPT !.port = port] ELSE doc[x].ports[i]]]]

(* The services that have the list of s, or get it with s.                 *)
Sharing(doc, s) ==
    IF doc[s].list # NoList THEN {t \in DOMAIN doc : doc[t].list = doc[s].list}
    ELSE {s} \cup {t \in DOMAIN doc : doc[t].list = NoList /\ s \in doc[t].takes}

Extended(doc, e, port) ==
    LET s == e.service
        list == IF doc[s].list # NoList THEN doc[s].list ELSE s
        entry == [readable |-> TRUE, container |-> e.container, protocol |-> e.protocol,
                  port |-> port, anchor |-> NoAnchor]
    IN  [t \in DOMAIN doc |->
            IF t \in Sharing(doc, s)
            THEN [doc[t] EXCEPT !.list = list, !.ports = Append(doc[s].ports, entry)]
            ELSE doc[t]]

(* Mutant of ServicePublished: the entry is always appended.               *)
ServicePublishedAtEnd(doc, e, port) ==
    IF e.service \notin DOMAIN doc THEN {} ELSE {Extended(doc, e, port)}

(* apply_port_mapping.                                                     *)
ServicePublished(doc, e, port) ==
    IF e.service \notin DOMAIN doc THEN {}
    ELSE LET at == Published(doc[e.service].ports, e) IN
         IF at = {} THEN {Extended(doc, e, port)}
         ELSE {Rewritten("compose", doc, <<e.service, i>>, port) :
                  i \in {i \in at : at = {i}}}

FindResource(doc, e) ==
    {i \in DOMAIN doc : /\ doc[i].kind = e.kind /\ doc[i].name = e.name
                        /\ e.ns # NoNamespace => doc[i].ns = e.ns}

FindContainer(resource, e) ==
    {k \in DOMAIN resource.containers : resource.containers[k] = e.container}

FindPort(resource, e) ==
    {j \in DOMAIN resource.ports :
        LET p == resource.ports[j] IN
        p.container \in FindContainer(resource, e) /\ p.match = e.match /\ p.protocol = e.protocol}

(* Mutant of FindEntry: any container's port will do.                      *)
FindEntryInPod(doc, e) ==
    UNION {{<<i, j>> : j \in {j \in DOMAIN doc[i].ports : /\ doc[i].ports[j].match = e.match
                                                         /\ doc[i].ports[j].protocol = e.protocol}} :
              i \in FindResource(doc, e)}

(* One resource, in it one container, and in that one entry; or none.      *)
FindEntry(doc, e) ==
    UNION {{<<i, j>> : j \in {j \in FindPort(doc[i], e) : FindPort(doc[i], e) = {j}}} :
              i \in {i \in DOMAIN doc : /\ FindResource(doc, e) = {i}
                                        /\ Cardinality(FindContainer(doc[i], e)) = 1}}

(* apply_host_port sets an entry's hostPort, apply_node_port a Service's   *)
(* nodePort when its type has one and the port is in the range; neither    *)
(* adds an entry.                                                          *)
Exposed(doc, e, port) ==
    {Rewritten("kubernetes", doc, at, port) :
        at \in {at \in FindEntry(doc, e) :
                  e.kind = "Service" => port \in NodePortRange /\ doc[at[1]].exposable}}

Edited(kind, doc, e, port) ==
    CASE kind = "dotenv" -> Assigned(doc, e, port)
      [] kind = "compose" -> ServicePublished(doc, e, port)
      [] kind = "kubernetes" -> Exposed(doc, e, port)

(* A missing dotenv file is created; the others have to be there.          *)
Readable(f) ==
    IF tree[f] # Absent THEN {tree[f]} ELSE IF KindOf[f] = "dotenv" THEN {<<>>} ELSE {}

-----------------------------------------------------------------------------
(* config plan, apply and rollback.                                        *)

(* build_plan takes the dotenv files, then the Compose, then the           *)
(* Kubernetes files, each list in its order.                               *)
Turn(k) == CASE KindOf[manifest.config[k].file] = "dotenv" -> 1
             [] KindOf[manifest.config[k].file] = "compose" -> 2
             [] KindOf[manifest.config[k].file] = "kubernetes" -> 3

ToPlan == DOMAIN manifest.config \ {plan[i].mapping : i \in DOMAIN plan}

Upcoming ==
    {k \in ToPlan : \A j \in ToPlan : Turn(k) < Turn(j) \/ (Turn(k) = Turn(j) /\ k <= j)}

Refuse ==
    /\ stage' = "refused"
    /\ draft' = NoDraft

(* Each file is edited as it is on disk.                                   *)
OpenFile ==
    /\ stage = "planning" /\ draft = NoDraft
    /\ \E k \in Upcoming :
          LET found == Readable(manifest.config[k].file) IN
          \/ \E doc \in found : /\ draft' = [mapping |-> k, doc |-> doc, done |-> 0]
                                /\ UNCHANGED stage
          \/ found = {} /\ Refuse
    /\ UNCHANGED <<given, tree, plan, copies, replan, original>>

(* The file is outside the project root, is too large or does not parse.   *)
FileUnreadable ==
    /\ stage = "planning" /\ draft = NoDraft /\ ToPlan # {}
    /\ Refuse
    /\ UNCHANGED <<given, tree, plan, copies, replan, original>>

Drafted == manifest.config[draft.mapping]

(* One entry of the mapping is written into the document.                  *)
EditEntry ==
    /\ stage = "planning" /\ draft # NoDraft
    /\ draft.done < Len(Drafted.entries)
    /\ LET e == Drafted.entries[draft.done + 1]
           docs == Edited(KindOf[Drafted.file], draft.doc, e, reply.ports[e.allocation])
       IN  \/ \E doc \in docs : /\ draft' = [draft EXCEPT !.doc = doc, !.done = @ + 1]
                                /\ UNCHANGED stage
           \/ docs = {} /\ Refuse
    /\ UNCHANGED <<given, tree, plan, copies, replan, original>>

Values(doc) == [i \in DOMAIN doc |-> <<doc[i].key, doc[i].value>>]

(* A dotenv file changes with a value, the others with their text.         *)
Action(f, new) ==
    IF tree[f] = Absent THEN "will_create"
    ELSE IF (IF KindOf[f] = "dotenv" THEN Values(new) # Values(tree[f]) ELSE new # tree[f])
    THEN "will_update" ELSE "no_change"

PlanFile ==
    /\ stage = "planning" /\ draft # NoDraft
    /\ draft.done = Len(Drafted.entries)
    /\ plan' = Append(plan, [mapping |-> draft.mapping, file |-> Drafted.file,
                             action |-> Action(Drafted.file, draft.doc),
                             before |-> tree[Drafted.file], content |-> draft.doc])
    /\ draft' = NoDraft
    /\ UNCHANGED <<given, stage, tree, copies, replan, original>>

SavePlan ==
    /\ stage = "planning" /\ draft = NoDraft /\ ToPlan = {}
    /\ stage' = "planned"
    /\ UNCHANGED <<given, tree, draft, plan, copies, replan, original>>

PlannedFor(f) == {i \in DOMAIN plan : plan[i].file = f}

LastOf(s) == CHOOSE i \in s : \A j \in s : j <= i

(* Every planned file is written, in order: of a file that is mapped       *)
(* twice, the second plan is what remains.                                 *)
Written(f) == plan[LastOf(PlannedFor(f))].content

Copied(n) == {i \in DOMAIN plan : BackupName[plan[i].file] = n /\ tree[plan[i].file] # Absent}

(* The files that exist are copied before the first is written.            *)
ApplyPlan ==
    /\ stage = "planned" /\ ~replan
    /\ copies' = [n \in CopyNames |->
                    IF Copied(n) = {} THEN Absent ELSE tree[plan[LastOf(Copied(n))].file]]
    /\ original' = tree
    /\ tree' = [f \in File |-> IF PlannedFor(f) = {} THEN tree[f] ELSE Written(f)]
    /\ stage' = "applied"
    /\ UNCHANGED <<given, draft, plan, replan>>

(* config plan once more, with the same manifest and allocation.           *)
PlanAgain ==
    /\ stage = "applied"
    /\ stage' = "loaded"
    /\ replan' = TRUE
    /\ plan' = <<>>
    /\ UNCHANGED <<given, tree, draft, copies, original>>

(* Mutant of Restored: files that were created stay.                       *)
RestoredExisting(f) == IF copies[BackupName[f]] = Absent THEN tree[f] ELSE copies[BackupName[f]]

Restored(f) == copies[BackupName[f]]

(* Rollback compares every file with what was written for it first.        *)
Rollback ==
    /\ stage = "applied"
    /\ IF \A i \in DOMAIN plan : tree[plan[i].file] = plan[i].content
       THEN /\ tree' = [f \in File |-> IF PlannedFor(f) = {} THEN tree[f] ELSE Restored(f)]
            /\ stage' = "rolled_back"
       ELSE /\ stage' = "stuck"
            /\ UNCHANGED tree
    /\ UNCHANGED <<given, draft, plan, copies, replan, original>>

DocumentsNext ==
    \/ LoadManifest \/ ManifestUnreadable \/ CheckAllocation
    \/ OpenFile \/ FileUnreadable \/ EditEntry \/ PlanFile \/ SavePlan
    \/ ApplyPlan \/ PlanAgain \/ Rollback

DocumentsSpec == DocumentsInit /\ [][DocumentsNext]_docvars

-----------------------------------------------------------------------------
(* No two mapped files share the name of their copies.                     *)
BackupsApart ==
    \A m, n \in Mappings : BackupName[m.file] = BackupName[n.file] => m.file = n.file

(* The commands' progress, the files and the plans keep their types: no    *)
(* edit turns a document into something else, nor does a rollback, unless  *)
(* it restores the copy of another file.                                   *)
DocumentsTypeOK ==
    /\ manifest \in Manifest /\ reply \in Reply
    /\ stage \in {"start", "loaded", "planning", "planned", "applied", "rolled_back",
                  "stuck", "refused"}
    /\ BackupsApart \/ stage # "rolled_back" => IsTree(tree)
    /\ IsTree(original)
    /\ draft # NoDraft =>
          /\ draft.mapping \in ToPlan
          /\ draft.done \in 0..Len(Drafted.entries)
          /\ IsDocument(KindOf[Drafted.file], draft.doc)
    /\ \A i \in DOMAIN plan :
          /\ plan[i].mapping \in DOMAIN manifest.config
          /\ plan[i].file = manifest.config[plan[i].mapping].file
          /\ plan[i].action \in IF plan[i].before = Absent THEN {"will_create"}
                                ELSE {"will_update", "no_change"}
          /\ IsDocument(KindOf[plan[i].file], plan[i].content)
    /\ copies = [n \in CopyNames |-> copies[n]]
    /\ replan \in BOOLEAN

(* A manifest that maps no file twice, and in a file nothing twice.        *)
FilesOnce ==
    \A i, j \in DOMAIN manifest.config :
        manifest.config[i].file = manifest.config[j].file => i = j

(* Validation lets two Kubernetes entries meet only when one of them       *)
(* leaves the namespace open; of Compose it compares nothing.              *)
SameTarget(kind, e, d) ==
    CASE kind = "dotenv" -> FALSE
      [] kind = "compose" -> [e EXCEPT !.allocation = d.allocation] = d
      [] kind = "kubernetes" -> e.ns # d.ns /\ NoNamespace \in {e.ns, d.ns}

EntriesOnce ==
    \A m \in Mappings : \A i, j \in DOMAIN m.entries :
        SameTarget(KindOf[m.file], m.entries[i], m.entries[j]) => i = j

(* What a reader of the file takes: the last assignment, the published     *)
(* ports, the entry of every resource the mapping means.                   *)
Effective(kind, doc, e) ==
    CASE kind = "dotenv" -> {doc[LastOf(Assignments(doc, e.key))].value}
      [] kind = "compose" ->
            {doc[e.service].ports[i].port : i \in Published(doc[e.service].ports, e)}
      [] kind = "kubernetes" ->
            UNION {{doc[i].ports[j].port : j \in FindPort(doc[i], e)} :
                       i \in FindResource(doc, e)}

(* The places an entry means.                                              *)
Meant(kind, doc, e) ==
    CASE kind = "dotenv" -> Assignments(doc, e.key)
      [] kind = "compose" ->
            UNION {{<<s, i>> : i \in Published(doc[s].ports, e)} :
                      s \in {e.service} \cap DOMAIN doc}
      [] kind = "kubernetes" ->
            UNION {{<<i, j>> : j \in FindPort(doc[i], e)} : i \in FindResource(doc, e)}

(* A file that does not exist is edited as an empty one.                   *)
Found(doc) == IF doc = Absent THEN <<>> ELSE doc

(* The files do not make one object of two places that are mapped: no list *)
(* of ports that two mapped services share, no entry with an anchor.       *)
Separate(kind, doc, e, d) ==
    \A p \in Meant(kind, doc, e), q \in Meant(kind, doc, d) :
        OneNode(kind, doc, p, q) => p = q

NodesApart ==
    \A m \in Mappings : \A e, d \in Entries(m) :
        Separate(KindOf[m.file], Found(tree[m.file]), e, d)

(* After apply, every mapped place has the allocation's port, whichever    *)
(* entries the file had before and however many are edited in one pass.    *)
(* (Of two places that are one YAML object the one mapped last has it.)    *)
MappedPlacesDelivered ==
    stage = "applied" /\ FilesOnce /\ EntriesOnce /\ NodesApart =>
        \A m \in Mappings : \A e \in Entries(m) :
            Effective(KindOf[m.file], tree[m.file], e) = {reply.ports[e.allocation]}

(* The places that are the object of a place some mapping means.           *)
MeantBy(mappings, f, doc) ==
    {p \in Places(KindOf[f], doc) :
        \E m \in {m \in mappings : m.file = f} : \E e \in Entries(m) :
            \E q \in Meant(KindOf[f], doc, e) : OneNode(KindOf[f], doc, p, q)}

(* What is around the places, and what an edit leaves of one it writes to. *)
Around(kind, doc) ==
    CASE kind = "dotenv" -> {}
      [] kind = "compose" -> [s \in DOMAIN doc |-> doc[s].takes]
      [] kind = "kubernetes" -> [i \in DOMAIN doc |-> [doc[i] EXCEPT !.ports = <<>>]]

Label(kind, x) == IF kind = "dotenv" THEN x.key ELSE [x EXCEPT !.port = NoPort]

(* Aliases and merges survive: what was one object is one, and nothing     *)
(* else has become part of it.                                             *)
SharingKept(kind, old, new) ==
    \A p \in Places(kind, old), q \in Places(kind, new) :
        OneNode(kind, new, p, q) <=> q \in Places(kind, old) /\ OneNode(kind, old, p, q)

(* From old to new, places are added only for the mappings, and of the     *)
(* others only those they mean are written to, no further than the port.   *)
OnlyMeantChanged(mappings, f, old, new) ==
    LET kind == KindOf[f] IN
    /\ Around(kind, new) = Around(kind, old)
    /\ Places(kind, old) \subseteq Places(kind, new)
    /\ Places(kind, new) \ Places(kind, old) \subseteq MeantBy(mappings, f, new)
    /\ SharingKept(kind, old, new)
    /\ \A p \in Places(kind, old) :
          IF p \in MeantBy(mappings, f, old)
          THEN Label(kind, At(kind, new, p)) = Label(kind, At(kind, old, p))
          ELSE At(kind, new, p) = At(kind, old, p)

(* Apply changes nothing else: no other line, service, entry, resource or  *)
(* file, but what YAML makes one object with a mapped place.               *)
NothingElseChanges ==
    stage = "applied" =>
        \A f \in File : tree[f] # original[f] =>
            /\ \E m \in Mappings : m.file = f
            /\ OnlyMeantChanged(Mappings, f, Found(original[f]), tree[f])

(* A second plan finds nothing to do: the editors recognise what they have *)
(* written, the entries they have added included.                          *)
PlanIsIdempotent ==
    stage = "planned" /\ replan /\ FilesOnce /\ EntriesOnce /\ NodesApart =>
        \A i \in DOMAIN plan :
            plan[i].action = "no_change" /\ plan[i].content = tree[plan[i].file]

(* Rollback finds what apply wrote and takes it back exactly, created      *)
(* files included, unless a file is mapped twice or two backups have one   *)
(* name.                                                                   *)
RollbackRestores ==
    FilesOnce /\ BackupsApart =>
        stage # "stuck" /\ (stage = "rolled_back" => tree = original)

=============================================================================
