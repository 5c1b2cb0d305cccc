-------------------------------- MODULE Ctl --------------------------------
(***************************************************************************)
(* Queries of the control interface (ctl/ctl.c): the walk of a dotted name *)
(* through a tree of nodes.  Some nodes take arguments, some of them       *)
(* optional; "{}" in the name stands for the next variadic argument; the   *)
(* walk ends at a leaf, or at a subtree that gets the rest of the name and *)
(* of the arguments.  A query tries the global tree and then the tree of   *)
(* the module.  A configuration is a list of queries that write.           *)
(*                                                                         *)
(* Names are sequences of tokens; a tree is a sequence of nodes [name,     *)
(* type, params, does, children], a parameter is [wild, parser].  One      *)
(* iteration of a loop of the code is one step.                            *)
(***************************************************************************)
EXTENDS Integers, Sequences, FiniteSets, SequencesExt

CONSTANTS GlobalTree, ModuleTree,   \* CTL_NODE(global), ctl->root
          NumberOf,                 \* the tokens strtoull() reads, and as what
          UllMax,                   \* ULLONG_MAX, the parser's mark of an error
          Programs,                 \* queries a program makes
          Configs,                  \* configurations: sequences of queries
          CtlContexts,                 \* subset of BOOLEAN: ctx # NULL
          CtlFails                  \* allocations that may fail

VARIABLES todo,    \* queries still to come; the first is being answered
          ctlContext, \* ctx # NULL
          walk,    \* the walk
          held,    \* how much the walk has allocated and not freed
          oom,     \* ghost: an allocation of this query has failed
          done     \* ghost: what was asked and what came of it

ctlVars == <<todo, ctlContext, walk, held, oom, done>>

Wildcard == "{}"
Nameless == "CTL_NAMELESS_NODE_"
NoNode == [name |-> "", type |-> "unknown", params |-> <<>>, does |-> {}, children |-> <<>>]
Query == Head(todo)
AtStart == [at |-> "start", tree |-> "global", args |-> <<>>]

CtlInit ==
    /\ \/ \E q \in Programs : todo = <<q>>
       \/ \E c \in Configs : todo = c
    /\ ctlContext \in CtlContexts
    /\ walk = AtStart /\ held = 0 /\ oom = FALSE /\ done = <<>>

-----------------------------------------------------------------------------
\* What the tree of this attempt is, and the arguments it starts from: the
\* first attempt works on a copy of the va_list.
TreeOf(tree) == IF tree = "global" THEN GlobalTree ELSE ModuleTree

\* Fault: the second attempt goes on where the first has left the va_list, and
\* reads whatever lies behind its end.
ArgsGoOn(w) == IF w.tree = "module" THEN w.args \o Query.args ELSE Query.args

ArgsFor(w) == Query.args

\* Strdup() and Zalloc(); the walk starts at the roots, on the first token.
StartWalk ==
    /\ walk.at = "start" /\ Query.formed
    /\ held' = held + 2
    /\ walk' = [at |-> "node", tree |-> walk.tree, n |-> NoNode, nodes |-> TreeOf(walk.tree),
                toks |-> Query.name, rest |-> <<>>, args |-> ArgsFor(walk), name |-> "",
                param |-> 0, values |-> <<>>, indexes |-> <<>>, spelled |-> <<>>]
    /\ UNCHANGED <<todo, ctlContext, oom, done>>

Ended(result) == [at |-> "end", tree |-> walk.tree, args |-> walk.args, result |-> result]

\* Without the list the copy of the name is not freed.
StartFails ==
    \E failed \in CtlFails \cap {"string", "list"} :
       /\ walk.at = "start" /\ Query.formed
       /\ walk' = Ended(IF failed = "string" THEN "invalid" ELSE "refused")
       /\ held' = IF failed = "string" THEN held ELSE held + 1
       /\ oom' = TRUE /\ UNCHANGED <<todo, ctlContext, done>>

\* ctl_delete_indexes() frees the list, its head and every argument in it.
ctl_delete_indexes == 1 + 2 * Len(walk.indexes)

\* A wildcard takes its token from the arguments; not so in a configuration.
WildcardAllowed == Query.source = "program"
Used ==
    IF walk.at = "node" /\ Head(walk.toks) = Wildcard /\ WildcardAllowed
    THEN Tail(walk.args) ELSE walk.args

\* Fault: an argument that cannot be parsed is not freed.
ErrorKeepsArgument(failed) ==
    /\ held' = held - ctl_delete_indexes - 1
    /\ walk' = Ended("invalid") /\ oom' = (oom \/ failed)
    /\ UNCHANGED <<todo, ctlContext, done>>

\* "goto error": an argument still being parsed is freed before the list.
Error(failed) ==
    /\ held' = held - ctl_delete_indexes - 1 - (IF walk.at = "args" THEN 1 ELSE 0)
    /\ walk' = [Ended("invalid") EXCEPT !.args = Used] /\ oom' = (oom \/ failed)
    /\ UNCHANGED <<todo, ctlContext, done>>

-----------------------------------------------------------------------------
TokenOf(tok) == IF tok = Wildcard THEN Head(walk.args) ELSE tok

\* The first node of that name which is a leaf exactly if the name ends here.
Candidates(nodes, name, last) ==
    {i \in DOMAIN nodes : nodes[i].name = name /\ ((nodes[i].type = "leaf") <=> last)}
Find(nodes, name, last) ==
    LET c == Candidates(nodes, name, last)
    IN  IF c = {} THEN NoNode ELSE nodes[CHOOSE i \in c : \A j \in c : i <= j]
NamelessOf(n, type) == Find(SelectSeq(n.children, LAMBDA m : m.type = type), Nameless, type = "leaf")

\* One token names one node.
TakeToken ==
    /\ walk.at = "node" /\ walk.toks # <<>> /\ walk.n.type # "subtree"
    /\ LET tok == Head(walk.toks)
           rest == Tail(walk.toks)
           bad == tok = Wildcard /\ ~WildcardAllowed
           name == TokenOf(tok)
           n == Find(walk.nodes, name, rest = <<>>)
       IN  IF bad \/ n = NoNode THEN Error(FALSE)
           ELSE /\ walk' = [walk EXCEPT
                     !.n = n, !.name = name, !.rest = rest, !.param = 1, !.values = <<>>,
                     !.args = Used, !.spelled = Append(@, name),
                     !.nodes = n.children, !.toks = rest,
                     !.at = IF n.params # <<>> /\ n.type = "named" THEN "argument" ELSE "node"]
                /\ UNCHANGED <<todo, ctlContext, held, oom, done>>

\* Memory for the arguments of the node.
NodeArg ==
    /\ walk.at = "argument"
    /\ \/ walk' = [walk EXCEPT !.at = "args"] /\ held' = held + 1
          /\ UNCHANGED <<todo, ctlContext, oom, done>>
       \/ "arg" \in CtlFails /\ Error(TRUE)

\* The parsers.  One that returns a positive number has not taken the token.
ctl_arg_unsigned(tok) == tok \in DOMAIN NumberOf /\ NumberOf[tok] < UllMax
by_name_index_parser(tok) == IF ctl_arg_unsigned(tok) THEN 0 ELSE 1
Parse(parser, tok) ==
    CASE parser = "index" -> by_name_index_parser(tok)
      [] parser = "string" /\ tok # "" -> 0
      [] OTHER -> -1

NextTok == IF walk.rest = <<>> THEN "" ELSE Head(walk.rest)
Taken(value) ==
    /\ walk' = [walk EXCEPT !.values = Append(@, value), !.rest = Tail(@), !.param = @ + 1,
                            !.spelled = Append(@, value),
                            !.args = IF NextTok = Wildcard THEN Tail(@) ELSE @]
    /\ UNCHANGED <<todo, ctlContext, held, oom, done>>

\* One parser of the node's argument: from the va_list or from the next token.
Argument ==
    /\ walk.at = "args" /\ walk.param <= Len(walk.n.params)
    /\ LET p == walk.n.params[walk.param]
       IN  IF NextTok = Wildcard
           THEN IF WildcardAllowed /\ p.wild THEN Taken(Head(walk.args)) ELSE Error(FALSE)
           ELSE IF p.parser = "none" THEN Error(FALSE)
           ELSE CASE Parse(p.parser, NextTok) < 0 -> Error(FALSE)
                  [] Parse(p.parser, NextTok) > 0 ->
                        /\ walk' = [walk EXCEPT !.param = Len(walk.n.params) + 1]
                        /\ UNCHANGED <<todo, ctlContext, held, oom, done>>
                  [] OTHER -> Taken(NextTok)

\* The arguments are listed, and what follows them chooses the next node: a
\* nameless leaf if nothing does, a nameless subtree if there is one.
Entry ==
    /\ walk.at = "args" /\ walk.param > Len(walk.n.params)
    /\ \/ "entry" \in CtlFails /\ Error(TRUE)
       \/ LET leaf == NamelessOf(walk.n, "leaf")
              sub == NamelessOf(walk.n, "subtree")
              n == CASE walk.rest = <<>> -> leaf
                     [] sub # NoNode -> sub
                     [] OTHER -> walk.n
              listed == Append(walk.indexes, [name |-> walk.name, values |-> walk.values])
          IN  IF n = NoNode
              THEN /\ held' = held - ctl_delete_indexes - 2
                   /\ walk' = Ended("invalid")
                   /\ UNCHANGED <<todo, ctlContext, oom, done>>
              ELSE /\ held' = held + 1
                   /\ walk' = [walk EXCEPT !.at = "node", !.n = n, !.indexes = listed,
                                           !.nodes = n.children, !.toks = walk.rest]
                   /\ UNCHANGED <<todo, ctlContext, oom, done>>

-----------------------------------------------------------------------------
\* The callbacks.  A write from a configuration parses the value first, into
\* memory that is freed again whatever the callback returns.
ctl_parse_args(n) == "value" \notin CtlFails /\ Query.value \in DOMAIN NumberOf
ctl_exec_query_read == "read" \in walk.n.does
ctl_exec_query_write ==
    "write" \in walk.n.does /\ (Query.source = "config" => ctl_parse_args(walk.n))
ctl_exec_query_runnable == "run" \in walk.n.does
ctl_exec_query_subtree == "subtree" \in walk.n.does

Executes ==
    IF walk.n.type = "subtree" THEN ctl_exec_query_subtree
    ELSE CASE Query.type = "read" -> ctl_exec_query_read
           [] Query.type = "write" -> ctl_exec_query_write
           [] Query.type = "run" -> ctl_exec_query_runnable

\* The walk has ended at a node; everything it allocated is freed.
Execute ==
    /\ walk.at = "node" /\ (walk.toks = <<>> \/ walk.n.type = "subtree")
    /\ LET result == IF walk.n.type \in {"leaf", "subtree"} /\ Executes
                     THEN "executed" ELSE "refused"
       IN  walk' = Ended(result) @@ [spelled |-> walk.spelled, extra |-> walk.toks]
    /\ held' = held - 1 - ctl_delete_indexes
    /\ UNCHANGED <<todo, ctlContext, oom, done>>

\* Only a name the global tree does not know is looked up in the module's.
ctl_query ==
    /\ walk.at = "end"
    /\ IF walk.result = "invalid" /\ walk.tree = "global"
       THEN /\ walk' = [walk EXCEPT !.at = "start", !.tree = "module"]
            /\ UNCHANGED <<todo, ctlContext, held, oom, done>>
       ELSE /\ walk' = [walk EXCEPT !.at = "answered"]
            /\ done' = Append(done, [query |-> Query, oom |-> oom, walk |-> walk])
            /\ UNCHANGED <<todo, ctlContext, oom, held>>

\* An item of a configuration that is not name=value ends it.
ctl_parse_query ==
    /\ walk.at = "start" /\ ~Query.formed
    /\ todo' = <<>> /\ walk' = [at |-> "returned"]
    /\ UNCHANGED <<ctlContext, held, oom, done>>

\* A configuration goes on after a failure unless it is for one object.
ctl_load_config_helper ==
    /\ walk.at = "answered"
    /\ todo' = IF walk.result # "executed" /\ ctlContext THEN <<>> ELSE Tail(todo)
    /\ walk' = IF todo' = <<>> THEN [at |-> "returned"] ELSE AtStart
    /\ oom' = FALSE /\ UNCHANGED <<ctlContext, held, done>>

CtlNext ==
    \/ StartWalk \/ StartFails \/ TakeToken \/ NodeArg \/ Argument \/ Entry \/ Execute
    \/ ctl_query \/ ctl_parse_query \/ ctl_load_config_helper

CtlSpec == CtlInit /\ [][CtlNext]_ctlVars

-----------------------------------------------------------------------------
\* A name with its wildcards replaced, in order, by the arguments.
Expand(name, args) ==
    [i \in DOMAIN name |->
        LET k == Cardinality({j \in 1..i : name[j] = Wildcard})
        IN  IF name[i] = Wildcard THEN [tok |-> args[k], wild |-> TRUE]
            ELSE [tok |-> name[i], wild |-> FALSE]]
Toks(expanded) == [i \in DOMAIN expanded |-> expanded[i].tok]

\* Whether an expanded name denotes a node that can be executed, said of the
\* tree as a whole: a node's arguments are as many of the next tokens as its
\* parameters accept, and only an index may be missing.
Accepts(p, e) == IF e.wild THEN p.wild ELSE Parse(p.parser, e.tok) = 0
RECURSIVE Denotes(_, _)
Denotes(nodes, name) ==
    /\ name # <<>>
    /\ \E n \in ToSet(nodes) :
          /\ n.name = Head(name).tok
          /\ (n.type = "leaf") <=> (Len(name) = 1)
          /\ LET more == Tail(name)
                 takes == {k \in 0..Len(n.params) :
                             /\ k <= Len(more)
                             /\ \A i \in 1..k : Accepts(n.params[i], more[i])}
                 k == CHOOSE k \in takes : \A j \in takes : j <= k
                 last == SubSeq(more, k + 1, Len(more))
                 full == \/ k = Len(n.params)
                         \/ /\ n.params[k + 1].parser = "index"
                            /\ last # <<>> => ~last[1].wild
             IN  n.type = "named" =>
                    /\ full
                    /\ CASE n.params = <<>> -> Denotes(n.children, more)
                         [] last = <<>> -> NamelessOf(n, "leaf") # NoNode
                         [] OTHER -> \/ NamelessOf(n, "subtree") # NoNode
                                     \/ Denotes(n.children, last)
Known(q) ==
    LET e == Expand(q.name, q.args)
    IN  Denotes(GlobalTree, e) \/ Denotes(ModuleTree, e)

\* What a query executes is what its name denotes: the names and arguments on
\* the way, then the rest of the name with the rest of the arguments, spell
\* the name that was asked for, also when the global tree has used up some of
\* the arguments before the module's tree gets its turn.  A name is refused
\* as unknown only if neither tree knows it or an allocation has failed.
QueriesRight ==
    \A i \in DOMAIN done :
       LET q == done[i].query
           w == done[i].walk
       IN  IF w.result = "invalid" THEN done[i].oom \/ q.source = "config" \/ ~Known(q)
           ELSE q.name # <<>> /\ "spelled" \in DOMAIN w =>
                   w.spelled \o Toks(Expand(w.extra, w.args)) = Toks(Expand(q.name, q.args))

\* The walk frees everything it has allocated, on every way out.
CtlFreed == walk.at \in {"end", "answered", "returned"} => held = 0
=============================================================================
