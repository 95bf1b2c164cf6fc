------------------------------- MODULE GroupIndex -------------------------------
(***************************************************************************)
(* The index of a file (Index::index, GroupIndex::index_group in           *)
(* src/src/idx/index.rs): its groups are walked depth first, the datasets  *)
(* of a group before the groups in it, and each dataset is indexed by the  *)
(* steps of DatasetIndex.  The index is then looked up by path.            *)
(*                                                                         *)
(* A group is a record of its datasets by name, of those of them that      *)
(* cannot be opened (broken, such as links that lead nowhere), and of the  *)
(* groups in it by name.                                                   *)
(***************************************************************************)
EXTENDS DatasetIndex

CONSTANTS
  Trees,       \* the root groups of files
  Depth,       \* how deep groups nest in them, at most
  GroupNames,  \* the names of the groups in them
  Paths        \* what callers look up: sequences of the parts between slashes

\* The group of a file at a path of names.
GroupIn(t, path) ==
  LET group[n \in 0..Len(path)] ==
        IF n = 0 THEN t ELSE group[n - 1].groups[path[n]]
  IN group[Len(path)]

\* The paths of the groups of a file.
PathsIn(t) ==
  {path \in UNION {[1..n -> GroupNames] : n \in 0..Depth} :
     \A n \in 1..Len(path) : path[n] \in DOMAIN GroupIn(t, SubSeq(path, 1, n - 1)).groups}

ASSUME DepthAssumption ==
  /\ Depth \in Nat
  /\ \A t \in Trees : \A path \in PathsIn(t) :
       LET names == DOMAIN GroupIn(t, path).groups
       IN names \subseteq GroupNames /\ (Len(path) = Depth => names = {})

ASSUME FilesAssumption ==
  \A t \in Trees : \A path \in PathsIn(t) :
    LET group == GroupIn(t, path)
    IN \A m \in DOMAIN group.datasets \ group.broken : FileOk(group.datasets[m])

\* What is between two slashes that follow one another.
Blank == ""

\* A name is not empty; a path has at least one part, which may be.
ASSUME NamesAssumption ==
  /\ GroupNames \subseteq STRING \ {Blank}
  /\ \A t \in Trees : \A path \in PathsIn(t) :
       DOMAIN GroupIn(t, path).datasets \subseteq STRING \ {Blank}
  /\ Paths \subseteq Seq(STRING) \ {<< >>}

VARIABLES
  tree,    \* the root group of the file
  stack,   \* the calls of index_group under way, that for the root first
  member,  \* the name of the dataset that is being indexed
  index    \* the finished index

groupVars == <<tree, stack, member, index>>
vars == <<groupVars, datasetVars>>

EmptyMap == << >>
\* HashMap::insert.
Insert(map, key, value) ==
  [k \in DOMAIN map \cup {key} |-> IF k = key THEN value ELSE map[k]]

NoIndex == [datasets |-> EmptyMap, groups |-> EmptyMap]

\* A call of index_group at the start: what is left to be done of the group at
\* the end of the path, and the maps it fills.
Call(path, group) ==
  [path     |-> path,     left |-> DOMAIN group.datasets, subgroups |-> DOMAIN group.groups,
   datasets |-> EmptyMap, groups |-> EmptyMap]

GroupAt(path) == GroupIn(tree, path)

Top   == stack[Len(stack)]
Group == GroupAt(Top.path)

Init ==
  /\ InitDataset
  /\ tree \in Trees
  /\ stack = << Call(<< >>, tree) >>
  /\ member = ""
  /\ index = NoIndex

\* A dataset that cannot be opened is left out, and so is one that has no
\* chunks and no address: values in the header, or not allocated.
Considered(group, m) ==
  /\ m \notin group.broken
  /\ group.datasets[m].chunk # NotChunked \/ group.datasets[m].address # NoAddress

Skip ==
  /\ pc = "idle"
  /\ \E m \in Top.left :
       /\ ~Considered(Group, m)
       /\ stack' = [stack EXCEPT ![Len(stack)].left = @ \ {m}]
  /\ UNCHANGED <<tree, member, index, datasetVars>>

MaxRank == 9

\* The next dataset of the group, as the library lists its members.
OpenMember ==
  /\ pc = "idle"
  /\ \E m \in Top.left :
       /\ Considered(Group, m)
       /\ Len(Group.datasets[m].shape) <= MaxRank
       /\ stack' = [stack EXCEPT ![Len(stack)].left = @ \ {m}]
       /\ member' = m
       /\ Open(Group.datasets[m])
  /\ UNCHANGED <<tree, index>>

\* A caller indexes a dataset by itself (DatasetD::index), whatever its layout.
IndexAlone ==
  /\ pc = "idle"
  /\ stack = << Call(<< >>, tree) >>
  /\ \E m \in DOMAIN tree.datasets \ tree.broken :
       /\ Len(tree.datasets[m].shape) <= MaxRank
       /\ member' = m
       /\ Open(tree.datasets[m])
  /\ stack' = << >>
  /\ UNCHANGED <<tree, index>>

\* DatasetD has no variant for a dataset of more dimensions: a panic.
RankPanics ==
  /\ pc = "idle"
  /\ \E m \in Top.left :
       /\ Considered(Group, m)
       /\ Len(Group.datasets[m].shape) > MaxRank
       /\ member' = m
       /\ file' = Group.datasets[m]
  /\ pc' = "panicked"
  /\ UNCHANGED <<tree, stack, index, f, shuffle, gzip, unvisited, found, result>>

\* The indexed dataset goes into the map of the group.
Collect ==
  /\ pc = "indexed"
  /\ stack # << >>
  /\ stack' = [stack EXCEPT ![Len(stack)].datasets =
                 Insert(@, member, [layout |-> result, shuffle |-> shuffle, gzip |-> gzip])]
  /\ pc' = "idle"
  /\ UNCHANGED <<tree, member, index, file, f, shuffle, gzip, unvisited, found, result>>

\* The datasets are done: the next of the groups in this one.
Descend ==
  /\ pc = "idle"
  /\ Top.left = {}
  /\ \E g \in Top.subgroups :
       stack' = Append([stack EXCEPT ![Len(stack)].subgroups = @ \ {g}],
                       Call(Append(Top.path, g), Group.groups[g]))
  /\ UNCHANGED <<tree, member, index, datasetVars>>

GroupDone == pc = "idle" /\ Top.left = {} /\ Top.subgroups = {}

Entry == [datasets |-> Top.datasets, groups |-> Top.groups]

\* As a mutant: the maps of the group are put in the place of what is there.
AscendAlone ==
  /\ GroupDone
  /\ Len(stack) > 1
  /\ stack' = [SubSeq(stack, 1, Len(stack) - 1)
                 EXCEPT ![Len(stack) - 1].groups = Insert(EmptyMap, Top.path[Len(Top.path)], Entry)]
  /\ UNCHANGED <<tree, member, index, datasetVars>>

\* A group is done: it goes into the map of the one above, under the last part of
\* its name.
Ascend ==
  /\ GroupDone
  /\ Len(stack) > 1
  /\ stack' = [SubSeq(stack, 1, Len(stack) - 1)
                 EXCEPT ![Len(stack) - 1].groups = Insert(@, Top.path[Len(Top.path)], Entry)]
  /\ UNCHANGED <<tree, member, index, datasetVars>>

Finish ==
  /\ GroupDone
  /\ Len(stack) = 1
  /\ index' = Entry
  /\ pc' = "done"
  /\ UNCHANGED <<tree, stack, member, file, f, shuffle, gzip, unvisited, found, result>>

\* The members or the groups of a group cannot be listed.
ListFails ==
  /\ pc = "idle"
  /\ pc' = "failed"
  /\ UNCHANGED <<groupVars, file, f, shuffle, gzip, unvisited, found, result>>

\* A dataset that is rejected, or fails, ends the whole walk: pc stays there.
Next ==
  \/ Skip \/ OpenMember \/ RankPanics \/ Collect \/ IndexAlone
  \/ Descend \/ Ascend \/ Finish \/ ListFails
  \/ Index /\ UNCHANGED groupVars

Spec == Init /\ [][Next]_vars

-------------------------------------------------------------------------------
(***************************************************************************)
(* Looking up a path (GroupIndex::dataset and group): "/a//x" is split at  *)
(* its slashes into <<"", "a", "", "x">>.                                  *)
(***************************************************************************)
\* trim_start_matches and trim_end_matches: the slashes at one end are dropped,
\* which leaves one part at least.
TrimStart(s) ==
  LET names == {n \in 1..Len(s) : s[n] # Blank}
  IN IF names = {} THEN << Blank >>
     ELSE SubSeq(s, CHOOSE n \in names : \A k \in names : n <= k, Len(s))

TrimEnd(s) ==
  LET names == {n \in 1..Len(s) : s[n] # Blank}
  IN IF names = {} THEN << Blank >>
     ELSE SubSeq(s, 1, CHOOSE n \in names : \A k \in names : n >= k)

\* try_fold over the names of groups: a set of the group found, or empty.
Fold(grp, names) ==
  LET at[n \in 0..Len(names)] ==
        IF n = 0 THEN {grp}
        ELSE {g.groups[names[n]] : g \in {h \in at[n - 1] : names[n] \in DOMAIN h.groups}}
  IN at[Len(names)]

LookupDataset(grp, s) ==
  LET parts   == TrimStart(s)
      ds_name == parts[Len(parts)]
  IN {g.datasets[ds_name] : g \in {h \in Fold(grp, SubSeq(parts, 1, Len(parts) - 1)) :
                                     ds_name \in DOMAIN h.datasets}}

LookupGroup(grp, s) == Fold(grp, TrimEnd(TrimStart(s)))

-------------------------------------------------------------------------------
GroupPaths == PathsIn(tree)

\* The datasets of a group whose values are kept outside of the header, or will be.
Outside(group) ==
  {m \in DOMAIN group.datasets \ group.broken :
     ~(group.datasets[m].chunk = NotChunked /\ group.datasets[m].address = NoAddress)}

Wanted == UNION {{GroupAt(p).datasets[m] : m \in Outside(GroupAt(p))} : p \in GroupPaths}

\* One dataset that cannot be indexed makes the index of the whole file fail, and
\* nothing else does but the library: an index that is finished has left out none
\* but the datasets with neither chunks nor an address and those that do not open
\* (index.rs:109).
AllOrNothing ==
  /\ pc = "done" => \A d \in Wanted : Indexable(d) /\ Len(d.shape) <= MaxRank
  /\ pc = "rejected" /\ stack # << >> => \E d \in Wanted : ~Indexable(d)
  /\ pc = "panicked" => \E d \in Wanted : Len(d.shape) > MaxRank

\* The comment of the filter in front of it: "skipping un-allocated datasets."
\* (index.rs:109).  No dataset without a single chunk in the file should be why
\* the walk ends.
UnallocatedAreSkipped ==
  ~(pc = "rejected" /\ stack # << >> /\ file.chunk # NotChunked /\ file.allocated = {})

IndexOf(d) ==
  [shape   |-> d.shape,
   addrs   |-> IF d.chunk = NotChunked THEN {d.address} ELSE {c.addr : c \in d.allocated},
   shuffle |-> \E n \in 1..Len(d.filters) : d.filters[n] = "shuffle",
   gzip    |-> \E n \in 1..Len(d.filters) : d.filters[n] = "deflate"]

Summary(e) ==
  [shape   |-> e.layout.shape,
   addrs   |-> {e.layout.chunks[n].addr : n \in 1..Len(e.layout.chunks)},
   shuffle |-> e.shuffle,
   gzip    |-> e.gzip]

\* All slashes of a path but those between two names are in front of them, and
\* the names in such a path.
Plain(s) == \A m, n \in 1..Len(s) : m < n /\ s[m] # Blank => s[n] # Blank
Names(s) == SubSeq(s, Cardinality({n \in 1..Len(s) : s[n] = Blank}) + 1, Len(s))

\* In a finished index a dataset is found under its path, with any number of
\* slashes before it, and nothing is found under any other: what is found is the
\* index of that dataset and of none other, whatever the order in which the walk
\* came by them.  From a group it is found under the rest of its path.  A path
\* with two slashes in its middle, or one at its end, finds no dataset, and "/"
\* no group (index.rs:132, 149).
FindsByPath ==
  pc = "done" =>
    /\ \A s \in Paths :
         LET names == Names(s)
             up    == SubSeq(names, 1, Len(names) - 1)
             name  == names[Len(names)]
         IN {Summary(e) : e \in LookupDataset(index, s)} =
              IF /\ Plain(s) /\ names # << >>
                 /\ up \in GroupPaths
                 /\ name \in Outside(GroupAt(up))
              THEN {IndexOf(GroupAt(up).datasets[name])} ELSE {}
    /\ \A s, t \in {q \in Paths : Len(q) <= 2} :
         (Plain(s) /\ Plain(t) /\ Names(s) # << >>) =>
           LookupDataset(index, Names(s) \o Names(t)) =
             IF Names(t) = << >> THEN LookupDataset(index, s)
             ELSE UNION {LookupDataset(g, t) : g \in LookupGroup(index, s)}
    /\ \A s \in Paths : Names(s) = << >> => LookupGroup(index, s) = {}
===============================================================================
