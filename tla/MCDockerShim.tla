----------------------------- MODULE MCDockerShim -----------------------------
(* Instances of DockerShim for TLC: two jobs, the first with two invocations   *)
(* of docker, and two cleanups.                                                *)
EXTENDS DockerShim, TLC

CONSTANTS a, b,          \* jobs
          a1, a2, b1,    \* their invocations of docker
          k1, k2         \* cleanups

Words(texts) == [i \in DOMAIN texts |-> [kind |-> "word", text |-> texts[i]]]
Flag(kind, text) == <<[kind |-> kind, text |-> text]>>

(* compose -p <name> up -d *)
UpIn(name) ==
    Words(<<"compose">>) \o Flag("project", "-p") \o Words(<<name, "up">>) \o Flag("switch", "-d")

(* compose -f file --project-name=<name> run web *)
RunIn(name) ==
    Words(<<"compose">>) \o Flag("compose", "-f") \o Words(<<"file">>)
        \o Flag("projectIs", name) \o Words(<<"run", "web">>)

Up == Words(<<"compose", "up">>)
DownIn(name) == Words(<<"compose">>) \o Flag("project", "-p") \o Words(<<name, "down">>)

(* compose run -p 8080:80 web *)
RunPublished == Words(<<"compose", "run">>) \o Flag("project", "-p") \o Words(<<"8080:80", "web">>)

(* --log-level debug system prune *)
Prune == Flag("docker", "--log-level") \o Words(<<"debug", "system", "prune">>)

(* --tlskey key system prune, and image prune with both its flags in one *)
PruneWithKey == Flag("unlisted", "--tlskey") \o Words(<<"key", "system", "prune">>)
PruneImages == Words(<<"image", "prune">>) \o Flag("switch", "-af")
PruneAllImages == Words(<<"image", "prune">>) \o Flag("switch", "--all")
PruneNetworks == Words(<<"network", "prune">>)
Prunes == {Prune, PruneWithKey, PruneImages, PruneAllImages, PruneNetworks}

CallerOf == (a1 :> a) @@ (a2 :> a) @@ (b1 :> b)
ResourceOf == (a :> "trie-a") @@ (b :> "trie-b")
OwnNames == {"trie-a", "trie-b", "x", "y"}
(* No name is used by both jobs. *)
Apart == (a1 :> {Up, UpIn("x")} \cup Prunes) @@ (a2 :> {RunIn("y"), UpIn("x"), DownIn("x"), RunPublished})
             @@ (b1 :> {Up})
SamePorts == (a :> {80}) @@ (b :> {80})
AnyProcess == {a1, a2, b1, k1, k2}
Cleaners == Permutations({k1, k2})
===============================================================================
