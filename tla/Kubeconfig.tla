----------------------------- MODULE Kubeconfig -----------------------------
(***************************************************************************)
(* A kubeconfig and the changes that kswitch makes to one: package         *)
(* kubeconfigutil (kubectx_copied) and the merge of merge-to-default.      *)
(*                                                                         *)
(* The sections of the YAML document are sets of named entries.  Names are *)
(* unique in a section, so "the first entry with this name" is the only    *)
(* one; the order of the entries matters to nobody.                        *)
(***************************************************************************)

CONSTANTS
    Name,     \* names of contexts, clusters, users and namespaces, and Unset
    Server,   \* what a cluster entry points to
    Secret    \* what a user entry authenticates with

\* A scalar that the file does not have, or that is empty.
Unset == ""
DefaultNamespace == "default"

ASSUME NamesAssumption == Unset \in Name /\ DefaultNamespace \in Name

Context == [name : Name, cluster : Name, user : Name, namespace : Name]
Cluster == [name : Name, server : Server]
User    == [name : Name, secret : Secret]

KubeconfigType ==
    [contexts : SUBSET Context, clusters : SUBSET Cluster, users : SUBSET User,
     current : Name, kswitch : Name]

\* The skeleton that ensureDefaultExists writes.
EmptyKubeconfig ==
    [current |-> Unset, contexts |-> {}, clusters |-> {}, users |-> {},
     kswitch |-> Unset]

Names(section) == {entry.name : entry \in section}

-----------------------------------------------------------------------------
(* The operations of kubeconfigutil.                                       *)

ModifyCurrentContext(kc, name) == [kc EXCEPT !.current = name]

SetKswitchContext(kc, name) == [kc EXCEPT !.kswitch = name]

ModifyContextName(kc, old, new) ==
    [kc EXCEPT !.contexts =
        {IF c.name = old THEN [c EXCEPT !.name = new] ELSE c : c \in @}]

\* Variant: the context keeps its name, only current-context is the alias.
SetContextUnrenamed(kc, name, original) == ModifyCurrentContext(kc, name)

\* An alias becomes the name of the context itself (kubeconfig.go:89).
SetContext(kc, name, original) ==
    ModifyCurrentContext(
        IF original = Unset THEN kc ELSE ModifyContextName(kc, original, name),
        name)

SetNamespace(kc, context, ns) ==
    [kc EXCEPT !.contexts =
        {IF c.name = context THEN [c EXCEPT !.namespace = ns] ELSE c :
           c \in @}]

NamespaceOfContext(kc, context) ==
    LET ns == {c.namespace : c \in {d \in kc.contexts : d.name = context}}
    IN IF ns \subseteq {Unset} THEN DefaultNamespace
                              ELSE CHOOSE n \in ns : TRUE

\* Variant: the cluster and the user of the removed context go with it.
RemoveContextAndIts(kc, name) ==
    LET gone == {c \in kc.contexts : c.name = name}
    IN [kc EXCEPT
          !.contexts = @ \ gone,
          !.clusters = {k \in @ : k.name \notin {c.cluster : c \in gone}},
          !.users = {u \in @ : u.name \notin {c.user : c \in gone}}]

\* Clusters and users that no remaining context refers to go as well.  A name
\* that is not there is no error, and current-context stays what it is.
RemoveContext(kc, name) ==
    LET kept == {c \in kc.contexts : c.name # name}
    IN [kc EXCEPT
          !.contexts = kept,
          !.clusters = {k \in @ : k.name \in {c.cluster : c \in kept}},
          !.users = {u \in @ : u.name \in {c.user : c \in kept}}]

\* Variant: an entry that the target has already stays.
MergeSectionKeeping(dst, src) ==
    dst \cup {e \in src : e.name \notin Names(dst)}

\* mergeSection: entries of src replace those of dst with the same name.
MergeSection(dst, src) == {e \in dst : e.name \notin Names(src)} \cup src

\* mergeKubeconfigs; kswitch-context is not among what is merged.
Merge(dst, src) ==
    [dst EXCEPT
       !.contexts = MergeSection(@, src.contexts),
       !.clusters = MergeSection(@, src.clusters),
       !.users = MergeSection(@, src.users),
       !.current = IF src.current # Unset THEN src.current ELSE @]

-----------------------------------------------------------------------------
(* What a kubeconfig says.                                                 *)

\* No context refers to a cluster or a user that the file does not define.
Sound(kc) ==
    \A c \in kc.contexts :
        c.cluster \in Names(kc.clusters) /\ c.user \in Names(kc.users)

\* Where a client that uses this context ends up, and as whom.
Reaches(kc, name) ==
    LET used == {c \in kc.contexts : c.name = name}
    IN {<<k.server, u.secret>> :
          k \in {l \in kc.clusters : \E c \in used : c.cluster = l.name},
          u \in {v \in kc.users : \E c \in used : c.user = v.name}}
=============================================================================
