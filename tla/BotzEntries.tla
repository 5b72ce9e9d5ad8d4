---------------------------- MODULE BotzEntries ----------------------------
(***************************************************************************)
(* What the paths of the master's HTTP server stand for (botz.c, x_botz.c  *)
(* and the entries of clus.c, serv.c and fs.c).  The server keeps a hash   *)
(* table of entries by parent and name.  The configuration adds some, and  *)
(* a request that comes to a cluster, a server or a filesystem adds one    *)
(* for it, which all later requests find.                                  *)
(*                                                                         *)
(* A path is the sequence of its names: pathsep drops empty ones.  The     *)
(* directories of the types u and v, which have one node each, are left    *)
(* out.  A body is named, not printed: which answer a path gets does not   *)
(* depend on the s_status a server sent, which module Servd is about.      *)
(***************************************************************************)
EXTENDS Integers, Sequences, FiniteSets

CONSTANTS
  Hosts, Jobs,                   \* names that PUTs may bring; idle jobs,
                                 \* which are not freed, are like hosts
  Clusters, Servs, Filesystems,  \* names the configuration gives
  Paths,                         \* paths a client may ask for
  AllocMayFail                   \* whether malloc may return NULL

Root == <<>>
Dirs == {"host", "job", "clus", "serv", "fs"}

(* Nothing handles POST or DELETE: one stands for both. *)
Methods == {"GET", "PUT", "DELETE"}

ASSUME NamesAssumption == AllocMayFail \in BOOLEAN /\ Paths \subseteq Seq(STRING)

VARIABLES
  entries,  \* bl_entry_table: e_parent, e_ops and e_data of each entry; an
            \* entry is called by the names that lead to it
  nodes     \* the names in x_hash_table of each type

vars == <<entries, nodes>>

Entry(parent, ops, data) == [parent |-> parent, ops |-> ops, data |-> data]

(* botz_listen_init and the calls of botz_add in main. *)
Static ==
  [e \in {Root, <<"top">>, <<"_domains">>} \cup {<<d>> : d \in Dirs} |->
     IF e = Root THEN Entry(Root, "default", "")
     ELSE IF e[1] \in Dirs THEN Entry(Root, "dir", e[1]) ELSE Entry(Root, e[1], "")]

-----------------------------------------------------------------------------
(* Answers: a status and what the body shows.                              *)
Pending == [status |-> 0, shows |-> <<>>]
Answer(s, what) == [status |-> s, shows |-> what]
NotFound == Answer(404, <<>>)
Forbidden == Answer(403, <<>>)
IfGet(m, what) == IF m = "GET" THEN Answer(200, what) ELSE Forbidden

(* x_entry_lookup_cb: what is below a node.  With no name left the answer  *)
(* is ready, whatever the method, and has an empty body.                   *)
BelowNode(x, names, m) ==
  CASE names = <<>> -> Answer(200, <<>>)
    [] names = <<"_child_list">> -> IfGet(m, <<"children", x>>)
    [] names = <<"_info">> -> IfGet(m, <<"info", x>>)
    [] OTHER -> NotFound

(* serv_entry_lookup_cb.  A status that does not parse is answered with    *)
(* 400 in place of the schedule.                                           *)
ServEntryLookup(x, names, m) ==
  IF names # <<"_status">> THEN BelowNode(x, names, m)
  ELSE IF m = "PUT" THEN Answer(200, <<"schedule", x>>) ELSE IfGet(m, <<"status", x>>)

(* fs_entry_lookup_cb. *)
FsEntryLookup(x, names, m) ==
  IF names = <<"_status">> THEN IfGet(m, <<"status", x>>) ELSE BelowNode(x, names, m)

(* x_dir_lookup_cb: the other names in a directory.                        *)
DirDefault(type, names, m) ==
  IF names[1] \in nodes[type] THEN BelowNode(names[1], Tail(names), m)
  ELSE IF names = <<"_hash">> \/ names = <<"_info">> THEN IfGet(m, <<names[1], type>>)
  ELSE NotFound

KeepsUnknown(type, name) == type \in {"clus", "serv", "fs"}
KeepsJobs(type, name) == type # "host" /\ name \in nodes[type]

(* Whether the o_lookup of a directory makes an entry (botz_new_entry):    *)
(* clusters, servers and filesystems are never freed, hosts and jobs do    *)
(* without.                                                                *)
Keeps(type, name) == type \in {"clus", "serv", "fs"} /\ name \in nodes[type]

(* e_ops->o_lookup of entry e for the names that are left: an answer, or   *)
(* Pending for a new entry.                                                *)
OLookup(t, e, names, m) ==
  CASE t[e].ops = "dir" -> IF Keeps(t[e].data, names[1]) THEN Pending
                           ELSE DirDefault(t[e].data, names, m)
    [] t[e].ops = "serv" -> ServEntryLookup(t[e].data, names, m)
    [] t[e].ops = "fs" -> FsEntryLookup(t[e].data, names, m)
    [] t[e].ops \in {"clus", "job"} -> BelowNode(t[e].data, names, m)
    [] OTHER -> NotFound

ParentAlwaysRoot(e) == Root

(* e_parent of an entry that a lookup at e has made. *)
ParentOfNew(e) == e

(* One turn of the loop in bx_lookup: the walk stands at an entry of w.tab *)
(* and takes the next name.                                                *)
Turn(w, names, m, ok) ==
  LET n == names[1]
      below == Append(w.at, n)
      found == OLookup(w.tab, w.at, names, m)
  IN IF n = "." THEN w
     ELSE IF n = ".." THEN [w EXCEPT !.at = w.tab[w.at].parent]
     ELSE IF below \in DOMAIN w.tab THEN [w EXCEPT !.at = below]
     ELSE IF found # Pending THEN [w EXCEPT !.answer = found]
     ELSE IF ~ok THEN [w EXCEPT !.answer = NotFound]
     ELSE [at |-> below, answer |-> Pending,
           tab |-> [e \in DOMAIN w.tab \cup {below} |->
                      IF e = below
                      THEN Entry(ParentOfNew(w.at), w.tab[w.at].data, n)
                      ELSE w.tab[e]]]

(* bx_lookup: from the root through the names of the path; ok says whether *)
(* new entries can be allocated.                                           *)
BxLookup(t, path, m, ok) ==
  LET walk[i \in 0..Len(path)] ==
        IF i = 0 THEN [at |-> Root, answer |-> Pending, tab |-> t]
        ELSE LET w == walk[i - 1] IN
             IF w.answer # Pending THEN w
             ELSE Turn(w, SubSeq(path, i, Len(path)), m, ok)
  IN walk[Len(path)]

(* o_method of an entry's ops. *)
OMethod(e, m) ==
  IF \/ m = "GET" /\ e.ops \in {"top", "_domains", "dir", "clus", "serv"}
     \/ m = "PUT" /\ e.ops \in {"clus", "serv"}
  THEN Answer(200, <<m, e.ops, e.data>>) ELSE Forbidden

(* bx_handle. *)
BxHandle(t, path, m, ok) ==
  LET w == BxLookup(t, path, m, ok) IN
  IF w.answer # Pending THEN w.answer ELSE OMethod(w.tab[w.at], m)

-----------------------------------------------------------------------------
Init ==
  /\ entries = Static
  /\ nodes = [d \in Dirs |-> CASE d = "clus" -> Clusters [] d = "serv" -> Servs
                               [] d = "fs" -> Filesystems [] OTHER -> {}]

(* A request is handled.  A body that is PUT to a cluster may bring jobs   *)
(* and hosts, and one to a server hosts (module FlowTree says which).      *)
Handle(path, m) ==
  \E ok \in IF AllocMayFail THEN BOOLEAN ELSE {TRUE} :
    LET r == BxHandle(entries, path, m, ok)
        put == m = "PUT" /\ r.status = 200
    IN /\ entries' = BxLookup(entries, path, m, ok).tab
       /\ IF put /\ r.shows # <<>> /\ r.shows[1] = "PUT"
          THEN \E h \in SUBSET Hosts,
                  j \in IF r.shows[2] = "clus" THEN SUBSET Jobs ELSE {{}} :
                 nodes' = [nodes EXCEPT !["host"] = @ \cup h, !["job"] = @ \cup j]
          ELSE nodes' = nodes

(* job_zombie_cb frees a job. *)
JobFreed(j) ==
  /\ j \in nodes["job"]
  /\ nodes' = [nodes EXCEPT !["job"] = @ \ {j}]
  /\ UNCHANGED entries

Next ==
  \/ \E path \in Paths, m \in Methods : Handle(path, m)
  \/ \E j \in Jobs : JobFreed(j)

Spec == Init /\ [][Next]_vars

-----------------------------------------------------------------------------
(* What may be kept for ever is kept and nothing else: no entry points to  *)
(* a node that can be freed, and names that nobody knows leave no entry    *)
(* behind, so that the table does not grow with the requests.              *)
OnlyLastingEntries ==
  \A e \in DOMAIN entries :
    \/ e \in DOMAIN Static
    \/ /\ Len(e) = 2
       /\ e[1] \in {"clus", "serv", "fs"} /\ e[2] \in nodes[e[1]]
       /\ entries[e] = Entry(<<e[1]>>, e[1], e[2])

(* No request can tell which others came before it and filled the table:   *)
(* every path is answered as by a server that has just started with the    *)
(* same nodes, also when a job of that name was freed meanwhile.           *)
CacheTransparent ==
  \A path \in Paths, m \in Methods :
    BxHandle(entries, path, m, TRUE) = BxHandle(Static, path, m, TRUE)

(* From every entry ".." leads back to where it was found, and from the    *)
(* root to the root; after it the walk goes on as if it had never left.    *)
DotDotReturns ==
  \A path \in Paths, m \in Methods :
    /\ BxHandle(entries, <<"..">> \o path, m, TRUE) = BxHandle(entries, path, m, TRUE)
    /\ \A e \in DOMAIN entries \ {Root} :
         BxHandle(entries, e \o <<"..">> \o path, m, TRUE)
           = BxHandle(entries, SubSeq(e, 1, Len(e) - 1) \o path, m, TRUE)
=============================================================================
