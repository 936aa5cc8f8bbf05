------------------------------- MODULE PathTrie -------------------------------
(***************************************************************************)
(* The trie of URL paths behind HandlerMap (PathTrie.h).  A path that ends  *)
(* in `*' matches anything from there on.  Each level of addNodeRecursive   *)
(* is a step; nothing else runs meanwhile, handlers are added before the    *)
(* server starts.                                                           *)
(***************************************************************************)
EXTENDS Integers, Sequences, SequencesExt, FiniteSets

CONSTANTS
    Chars,      \* characters of paths
    MaxLength,  \* longest path that is added or looked up
    MaxAdds     \* calls of addNode

ASSUME PathTrieAssumption == MaxLength \in Nat /\ MaxAdds \in Nat

None == 0
Paths == UNION {[1..n -> Chars] : n \in 0..MaxLength}

VARIABLES
    nodes,      \* the nodes by number, the root first
    pc,         \* "idle", or "adding" inside addNode
    root,       \* argument of addNodeRecursive: a node
    insertPrefix, regexEnd,     \* its other arguments
    path,       \* history: the path of the call, without its `*'
    calls,      \* calls of addNode so far; also the value of the call
    accepted,   \* history: the paths for which addNode returned true
    result      \* what the last call returned

vars == <<nodes, pc, root, insertPrefix, regexEnd, path, calls, accepted, result>>

-----------------------------------------------------------------------------

\* A node without and with a value.
TrieNode(prefix) ==
    [prefix |-> prefix, regexEnd |-> FALSE, hasValue |-> FALSE, value |-> None, children |-> [c \in Chars |-> None]]
ValueNode(prefix, regex) ==
    [TrieNode(prefix) EXCEPT !.hasValue = TRUE, !.value = calls, !.regexEnd = regex]

substring(s, from) == SubSeq(s, from + 1, Len(s))

child == nodes[root].children[insertPrefix[1]]
childPrefix == nodes[child].prefix

\* Where the child's prefix and the path part; the shorter of their lengths if
\* they do not.
diffIndex == Len(LongestCommonPrefix({childPrefix, insertPrefix}))
anyDiff == diffIndex < Len(childPrefix) /\ diffIndex < Len(insertPrefix)

return(res) ==
    /\ pc' = "idle"
    /\ result' = res
    /\ accepted' = IF res THEN accepted \cup {[path |-> path, regex |-> regexEnd, value |-> calls]} ELSE accepted
    /\ UNCHANGED <<root, insertPrefix, regexEnd, path, calls>>

addNode(p, regex) ==
    /\ pc = "idle" /\ calls < MaxAdds
    /\ calls' = calls + 1
    /\ pc' = "adding"
    /\ root' = 1 /\ insertPrefix' = p /\ path' = p /\ regexEnd' = regex
    /\ UNCHANGED <<nodes, accepted, result>>

\* Mutant: a second handler of a path replaces the first.
addHereReplaces ==
    /\ nodes' = [nodes EXCEPT ![root].value = calls, ![root].hasValue = TRUE, ![root].regexEnd = regexEnd]
    /\ return(TRUE)

\* The path ends at this node.
addHere ==
    \/ nodes[root].hasValue /\ UNCHANGED nodes /\ return(FALSE)
    \/ /\ ~nodes[root].hasValue
       /\ nodes' = [nodes EXCEPT ![root].value = calls, ![root].hasValue = TRUE, ![root].regexEnd = regexEnd]
       /\ return(TRUE)

addNewChild ==
    /\ nodes' = [Append(nodes, ValueNode(insertPrefix, regexEnd)) EXCEPT ![root].children[insertPrefix[1]] = Len(nodes) + 1]
    /\ return(TRUE)

\* Mutant: the child keeps its whole prefix below the common node.
splitChildUncut ==
    LET n == Len(nodes)
        common == [TrieNode(SubSeq(insertPrefix, 1, diffIndex)) EXCEPT
                      !.children[childPrefix[diffIndex + 1]] = child,
                      !.children[insertPrefix[diffIndex + 1]] = n + 2]
    IN /\ nodes' = [nodes \o <<common, ValueNode(substring(insertPrefix, diffIndex), regexEnd)>>
                      EXCEPT ![root].children[insertPrefix[1]] = n + 1]
       /\ return(TRUE)

\* Mutant: the common node is filed under the first character of the new node.
splitChildMisfiled ==
    LET n == Len(nodes)
        common == [TrieNode(SubSeq(insertPrefix, 1, diffIndex)) EXCEPT
                      !.children[childPrefix[diffIndex + 1]] = child,
                      !.children[insertPrefix[diffIndex + 1]] = n + 2]
    IN /\ nodes' = [nodes \o <<common, ValueNode(substring(insertPrefix, diffIndex), regexEnd)>>
                      EXCEPT ![child].prefix = substring(@, diffIndex),
                             ![root].children[insertPrefix[diffIndex + 1]] = n + 1]
       /\ return(TRUE)

\* A common node takes the child's place; the child and the new node go below.
splitChild ==
    LET n == Len(nodes)
        common == [TrieNode(SubSeq(insertPrefix, 1, diffIndex)) EXCEPT
                      !.children[childPrefix[diffIndex + 1]] = child,
                      !.children[insertPrefix[diffIndex + 1]] = n + 2]
    IN /\ nodes' = [nodes \o <<common, ValueNode(substring(insertPrefix, diffIndex), regexEnd)>>
                      EXCEPT ![child].prefix = substring(@, diffIndex),
                             ![root].children[insertPrefix[1]] = n + 1]
       /\ return(TRUE)

\* Mutant: the recursion is given the path as it was.
descendUncut ==
    /\ root' = child
    /\ UNCHANGED <<nodes, pc, regexEnd, insertPrefix, path, calls, accepted, result>>

descend ==
    /\ root' = child
    /\ insertPrefix' = substring(insertPrefix, Len(childPrefix))
    /\ UNCHANGED <<nodes, pc, regexEnd, path, calls, accepted, result>>

\* The path ends inside the child's prefix.  A wildcard is refused here.
addShorter ==
    \/ regexEnd /\ UNCHANGED nodes /\ return(FALSE)
    \/ /\ ~regexEnd
       /\ nodes' = [Append(nodes, [ValueNode(SubSeq(childPrefix, 1, Len(insertPrefix)), FALSE) EXCEPT
                                       !.children[childPrefix[Len(insertPrefix) + 1]] = child])
                      EXCEPT ![child].prefix = substring(@, Len(insertPrefix)),
                             ![root].children[insertPrefix[1]] = Len(nodes) + 1]
       /\ return(TRUE)

addNodeRecursive ==
    /\ pc = "adding"
    /\ \/ insertPrefix = <<>> /\ addHere
       \/ insertPrefix # <<>> /\ child = None /\ addNewChild
       \/ /\ insertPrefix # <<>> /\ child # None
          /\ \/ anyDiff /\ splitChild
             \/ ~anyDiff /\ Len(childPrefix) <= Len(insertPrefix) /\ descend
             \/ ~anyDiff /\ Len(childPrefix) > Len(insertPrefix) /\ addShorter

Init ==
    /\ nodes = <<TrieNode(<<>>)>>
    /\ pc = "idle" /\ root = 1 /\ insertPrefix = <<>> /\ path = <<>>
    /\ regexEnd = FALSE /\ result = FALSE
    /\ calls = 0
    /\ accepted = {}

Next == addNodeRecursive \/ \E p \in Paths, regex \in BOOLEAN : addNode(p, regex)

Spec == Init /\ [][Next]_vars

-----------------------------------------------------------------------------
(* Lookups. *)

\* Mutant: the nodes below a wildcard are looked at first.
findInLongest(start) ==
    LET f[x \in (DOMAIN nodes) \X Paths] ==
            LET n == x[1]
                s == x[2]
                c == IF s = <<>> THEN None ELSE nodes[n].children[s[1]]
            IN IF s # <<>> /\ c # None /\ IsPrefix(nodes[c].prefix, s)
               THEN f[<<c, substring(s, Len(nodes[c].prefix))>>]
               ELSE IF s = <<>> \/ nodes[n].regexEnd THEN nodes[n].value ELSE None
    IN f[<<1, start>>]

\* The value for a path, or None.
findRecursive(start) ==
    LET f[x \in (DOMAIN nodes) \X Paths] ==
            LET n == x[1]
                s == x[2]
                c == nodes[n].children[s[1]]
            IN IF s = <<>> \/ nodes[n].regexEnd THEN nodes[n].value
               ELSE IF c = None \/ ~IsPrefix(nodes[c].prefix, s) THEN None
               ELSE f[<<c, substring(s, Len(nodes[c].prefix))>>]
    IN f[<<1, start>>]

-----------------------------------------------------------------------------
(* Properties. *)

\* The paths from the root, by following children.
childrenOf(n) == {nodes[n].children[c] : c \in Chars} \ {None}
FullPaths ==
    LET below[n \in DOMAIN nodes] ==
            {nodes[n].prefix \o s : s \in {<<>>} \cup UNION {below[k] : k \in childrenOf(n)}}
    IN below[1]

AcceptedPaths == {a.path : a \in accepted}
Extends(p, q) == IsStrictPrefix(q, p)

\* A path after which accepted paths go on in different ways.
Branches(p) ==
    \E a, b \in AcceptedPaths :
        Extends(a, p) /\ Extends(b, p) /\ a[Len(p) + 1] # b[Len(p) + 1]

\* Nodes refer to nodes, are found under the first character of their prefix,
\* and only the root's prefix is empty.
TypeOK ==
    /\ pc \in {"idle", "adding"} /\ root \in DOMAIN nodes
    /\ regexEnd \in BOOLEAN /\ result \in BOOLEAN /\ calls \in 0..MaxAdds
    /\ insertPrefix \in Paths /\ path \in Paths
    /\ \A n \in DOMAIN nodes, c \in Chars :
          LET k == nodes[n].children[c]
          IN k # None => /\ k \in DOMAIN nodes /\ k # 1
                         /\ nodes[k].prefix # <<>> /\ nodes[k].prefix[1] = c

\* However the calls were ordered, the trie has a node for the root, for every
\* accepted path and for every path at which accepted ones part, and no other:
\* the splits neither lose a path nor leave nodes behind.
NodesAreBranchings ==
    pc = "idle" =>
        /\ FullPaths = {<<>>} \cup AcceptedPaths \cup {p \in Paths : Branches(p)}
        /\ Len(nodes) = Cardinality(FullPaths)

\* A lookup gives the value of the shortest accepted wildcard that the path
\* goes on from, else of the path itself, else nothing.
LookupsAsAdded ==
    pc = "idle" => \A p \in Paths :
        LET wild == {a \in accepted : a.regex /\ Extends(p, a.path)}
            own == {a \in accepted : a.path = p}
        IN findRecursive(p) =
              IF wild # {} THEN (CHOOSE a \in wild : \A b \in wild : Len(a.path) <= Len(b.path)).value
              ELSE IF own # {} THEN (CHOOSE a \in own : TRUE).value
              ELSE None

\* addNode refuses a path that has a handler, and a wildcard that would hide
\* accepted paths which all go on with one character; nothing else.  (One that
\* hides paths which part at once is accepted.)
RefusedForCollision ==
    pc = "idle" /\ calls > 0 =>
        LET earlier == {a.path : a \in {b \in accepted : b.value # calls}}
            longer == {q \in earlier : Extends(q, path)}
        IN ~result <=>
              \/ path \in earlier
              \/ /\ regexEnd /\ path # <<>> /\ longer # {}
                 /\ \A q, r \in longer : q[Len(path) + 1] = r[Len(path) + 1]

\* The links and prefixes of the nodes are sound in the middle of a split too,
\* and between calls the nodes are those that the accepted paths call for.
WellFormed == TypeOK /\ NodesAreBranchings

\* What addNode and find answer depends on the paths accepted so far as stated,
\* and on nothing else of the order in which they were added.
AnswersAsAdded == LookupsAsAdded /\ RefusedForCollision

\* Every level of addNodeRecursive leaves less of the path: however the nodes were
\* split before, addNode returns.
AdditionsEnd ==
    [][pc = "adding" /\ pc' = "adding" => Len(insertPrefix') < Len(insertPrefix)]_vars
===============================================================================
