---- MODULE MCStartup ----
EXTENDS Startup, TLC
CONSTANTS p1, p2, sync, manual, n1, n2, f, g, home
MCProcess == {p1, p2}
MCHook == <<sync, manual>>
MCInterval == sync :> 1

Store(k, i) ==
  [kind |-> k, id |-> i, name |-> Unset, paths |-> {f}, refresh |-> FALSE,
   required |-> TRUE, cache |-> Unset, landscape |-> Unset, peer |-> Unset,
   factory |-> "builds"]
Plain == Store("filesystem", "default")
Conf(r, ss) ==
  [version |-> TRUE, name |-> Unset, refresh |-> r, stores |-> ss]
Env ==
  [flag |-> Unset, kubeconfig |-> {f, g}, temporary |-> {g},
   defaultExists |-> TRUE, doctl |-> FALSE, kindBinary |-> FALSE,
   answers |-> TRUE, backend |-> "filesystem", factory |-> "builds"]

\* Stores that share a kind, in every combination of IDs; and what can become
\* of one.
Sharing ==
  {Conf(r, <<Store(k, i), Store("kind", Unset), Store(l, j)>>) :
     r \in BOOLEAN, k \in {"filesystem", "gardener"}, i \in ID \cup {Unset},
     l \in {"filesystem", "gardener"}, j \in ID \cup {Unset}}
Gardens ==
  {Conf(TRUE, <<[Store("gardener", i) EXCEPT !.landscape = l],
                Store("gardener", j)>>) :
     i \in {Unset, "a"}, l \in {Unset, "a", "default"},
     j \in {Unset, "a"}}
Outcomes ==
  {Conf(FALSE, <<[Store(k, "a") EXCEPT !.factory = x, !.required = b,
                                       !.cache = c, !.name = m],
                 [Plain EXCEPT !.name = o]>>) :
     k \in {"vault", "digitalOcean"}, x \in {"builds", "fails", "optsOut"},
     b \in BOOLEAN, c \in {Unset, "memory", "file", "unknown"},
     m \in {Unset, n2}, o \in {Unset, n1}}
\* Two kubernetes stores that refer to each other, to a third, or to nothing.
Referring ==
  {Conf(FALSE, <<[Store("kubernetes", "a") EXCEPT !.peer = q, !.cache = c],
                 Store("gardener", Unset),
                 [Store("kubernetes", Unset) EXCEPT !.peer = r,
                                                    !.cache = c]>>) :
     c \in {Unset, "memory", "file"},
     q, r \in {Unset, <<"kubernetes", "a">>, <<"kubernetes", "default">>,
               <<"gardener", "default">>, <<"vault", "a">>}}
Environments ==
  {[Env EXCEPT !.flag = x, !.defaultExists = d, !.doctl = o, !.kindBinary = b,
               !.answers = w] :
     x \in {Unset, g}, d, o, b, w \in BOOLEAN}
    \cup {[Env EXCEPT !.backend = k, !.factory = x, !.doctl = o] :
            k \in {"digitalOcean", "vault"}, x \in {"builds", "fails"},
            o \in BOOLEAN}

\* One command and many configurations, or one configuration and two
\* commands.
MCInit ==
  /\ \/ /\ settings \in Sharing \cup Gardens \cup Outcomes \cup Referring
        /\ ConfigIsValid(settings)
        /\ environment \in Environments
        /\ phase = [p \in Process |-> IF p = p1 THEN "idle" ELSE "done"]
        /\ command = [p \in Process |-> "switch"]
     \/ /\ settings = Conf(TRUE, <<Plain>>) /\ environment = Env
        /\ phase = [p \in Process |-> "idle"]
        /\ command \in [Process -> Command]
  /\ Files!FileInit
  /\ "paths" \in file.has => IsOldStyle(settings)
  /\ HookRuns!HooksInit
  /\ stores = [p \in Process |-> Refused]
  /\ faults = 0 /\ spoilt = (file.form = "mistyped")
MCSpec == MCInit /\ [][Next]_vars
====
