------------------------- MODULE MCConfigDocuments -------------------------
EXTENDS ConfigDocuments, TLC

Paths == {".env", "compose.yaml", "k8s.yaml"}
MCKindOf == ".env" :> "dotenv" @@ "compose.yaml" :> "compose" @@ "k8s.yaml" :> "kubernetes"
MCBackupName == [f \in Paths |-> f]

(* Requests: web's port is in the NodePort range, db's is not.             *)
Request == [protocol |-> "tcp", preferred |-> NoPort, range |-> <<>>]
Both == [n \in {"web", "db"} |-> Request]

-----------------------------------------------------------------------------
(* Entries and mappings.                                                   *)

Assign(key, name) == [key |-> key, allocation |-> name]

DotenvEntries ==
    {<<Assign(k, n)>> : k \in {"PORT", "2ND"}, n \in {"web", "db"}}
    \cup {<<Assign("PORT", n), Assign("DB", m)>> : n, m \in {"web", "db"}}

Publish(service, protocol, name) ==
    [service |-> service, container |-> 80, protocol |-> protocol, allocation |-> name]

ComposePool == {Publish("app", "tcp", "web"), Publish("app", "tcp", "db"),
                Publish("app", "udp", "db"), Publish("web", "tcp", "db"),
                Publish("job", "tcp", "web")}

Expose(kind, ns, container, name) ==
    [kind |-> kind, ns |-> ns, name |-> "app", container |-> container,
     match |-> 80, protocol |-> "tcp", allocation |-> name]

KubernetesPool ==
    {Expose("Deployment", NoNamespace, "main", "web"), Expose("Deployment", "prod", "main", "db"),
     Expose("Deployment", "prod", "side", "web"),
     Expose("Service", NoNamespace, "spec", "web"), Expose("Service", "prod", "spec", "db")}

UpTo2(pool) == {<<e>> : e \in pool} \cup {<<e, d>> : e, d \in pool}

Of(file, entries) == [file |-> file, entries |-> entries]

Configs ==
    {<<Of(".env", es)>> : es \in DotenvEntries}
    \cup {<<Of("compose.yaml", es)>> : es \in UpTo2(ComposePool)}
    \cup {<<Of("k8s.yaml", es)>> : es \in UpTo2(KubernetesPool)}
    \cup {<<>>,
          <<Of("k8s.yaml", <<Expose("Service", "prod", "spec", "web")>>),
            Of("compose.yaml", <<Publish("app", "tcp", "db")>>),
            Of(".env", <<Assign("PORT", "web")>>)>>,
          <<Of(".env", <<Assign("PORT", "web")>>), Of(".env", <<Assign("DB", "db")>>)>>}

With(config) == [version |-> 1, project |-> "p", target |-> "box", ports |-> Both,
                 config |-> config]
Default == With(<<Of(".env", <<Assign("PORT", "web")>>)>>)

MCManifest ==
    {With(config) : config \in Configs}
    \cup {[Default EXCEPT !.version = 2], [Default EXCEPT !.target = NoTarget],
          [Default EXCEPT !.target = "id1"], [Default EXCEPT !.project = "q"],
          [Default EXCEPT !.ports["web"].range = <<30000, 40000>>],
          [Default EXCEPT !.ports["web"].range = <<30000, 30001>>,
                          !.ports["web"].preferred = 9000],
          [Default EXCEPT !.ports = [n \in {"db"} |-> Request]]}

Active == [status |-> "active", project |-> "p", host |-> "id1",
           ports |-> "web" :> 30001 @@ "db" :> 9000]

MCReply == {Active, [Active EXCEPT !.status = "released"], [Active EXCEPT !.host = "id2"],
            [Active EXCEPT !.ports = "web" :> 30001]}

MCListing == {{[id |-> "id1", name |-> "box"]},
              {[id |-> "id1", name |-> "box"], [id |-> "id2", name |-> "box"]}, {}}

-----------------------------------------------------------------------------
(* Documents.                                                              *)

Line(key, value) == [key |-> key, value |-> value, neat |-> FALSE]

DotenvDocs == {Absent, <<>>, <<Line("PORT", 30001)>>,
               <<Line("DB", 1), Line("MODE", 2), Line("PORT", 3)>>,
               <<Line("PORT", 1), Line("PORT", 2)>>}

Port(readable, protocol, port, anchor) ==
    [readable |-> readable, container |-> 80, protocol |-> protocol, port |-> port,
     anchor |-> anchor]
Plain(protocol, port) == Port(TRUE, protocol, port, NoAnchor)

Listed(list, takes, ports) == [list |-> list, takes |-> takes, ports |-> ports]

Services(app, web) == [s \in {"app", "web"} |-> IF s = "app" THEN app ELSE web]

(* Two services with a list each; one list by an alias, or by a merge of   *)
(* one service into the other, that has a list or has not; one entry.      *)
ComposeDocs ==
    {Absent} \cup
    {Services(Listed("app", {}, ports), Listed("web", {}, <<Plain("tcp", 1)>>)) :
        ports \in {<<>>, <<Plain("tcp", NoPort)>>,
                   <<Plain("udp", 2), Port(FALSE, "tcp", 3, NoAnchor), Plain("tcp", 30001)>>,
                   <<Plain("tcp", 1), Plain("tcp", 2)>>}}
    \cup {Services(Listed("app", {}, ports), Listed("app", {"app"}, ports)) :
            ports \in {<<>>, <<Plain("tcp", 1)>>}}
    \cup {Services(Listed(NoList, {}, <<>>), Listed(NoList, {"app"}, <<>>)),
          Services(Listed("app", {}, <<Port(TRUE, "tcp", 1, "p"), Plain("udp", 2)>>),
                   Listed("web", {}, <<Port(TRUE, "tcp", 1, "p")>>))}

Resource(kind, ns, containers, ports, exposable) ==
    [kind |-> kind, name |-> "app", ns |-> ns, containers |-> containers,
     ports |-> ports, exposable |-> exposable]

Anchored(container, protocol, port, anchor) ==
    [container |-> container, match |-> 80, protocol |-> protocol, port |-> port,
     anchor |-> anchor]
Slot(container, protocol, port) == Anchored(container, protocol, port, NoAnchor)

Deployment(ns) ==
    Resource("Deployment", ns, <<"main", "side">>,
             <<Slot(2, "tcp", 5), Slot(1, "udp", NoPort), Slot(1, "tcp", NoPort)>>,
             TRUE)
SideOnly == Resource("Deployment", "prod", <<"main", "side">>, <<Slot(2, "tcp", 5)>>, TRUE)
TheService(ports, exposable) == Resource("Service", "prod", <<"spec">>, ports, exposable)

KubernetesDocs ==
    {Absent, <<>>, <<SideOnly>>, <<Deployment("prod"), Deployment("dev")>>,
     <<Resource("Deployment", "prod", <<"main", "side">>,
                <<Anchored(1, "tcp", 5, "p"), Anchored(2, "tcp", 5, "p")>>, TRUE)>>,
     <<Resource("Deployment", "prod", <<"main", "main">>, <<Slot(1, "tcp", 5)>>, TRUE)>>,
     <<TheService(<<Slot(1, "tcp", 7)>>, FALSE)>>,
     <<TheService(<<Slot(1, "tcp", 7), Slot(1, "tcp", 8)>>, TRUE)>>,
     <<Deployment("prod"), TheService(<<Slot(1, "tcp", 30001)>>, TRUE)>>}

Usual == [f \in Paths |->
            CASE f = ".env" -> Absent
              [] f = "compose.yaml" -> [s \in {"app"} |-> Listed(NoList, {}, <<>>)]
              [] f = "k8s.yaml" -> <<Deployment("prod"), TheService(<<Slot(1, "tcp", 7)>>, TRUE)>>]

MCTree == {[Usual EXCEPT ![".env"] = d] : d \in DotenvDocs}
          \cup {[Usual EXCEPT !["compose.yaml"] = d] : d \in ComposeDocs}
          \cup {[Usual EXCEPT !["k8s.yaml"] = d] : d \in KubernetesDocs}
=============================================================================
