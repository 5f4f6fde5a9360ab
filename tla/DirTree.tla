------------------------------ MODULE DirTree ------------------------------
(***************************************************************************)
(* The directory tree of the partial-restore file selector: the           *)
(* FileSelectorView tree store (_init_tree, expand_to_dir,                 *)
(* update_dir_contents, _search), the FileSelector model's cwd_path,       *)
(* cwd_contents and _visited cache (change_dir, get_list and their         *)
(* callbacks, cached) and the FileSelectorController handlers and          *)
(* notifications between them (Views.py, Models.py, Controllers.py).       *)
(*                                                                         *)
(* A string is a sequence of tokens: "/" and directory names, so that      *)
(* split('/'), '/'.join and concatenation are modelled by what they do.    *)
(* A row of the tree store is [c0 (column 0), name (column 1), parent,     *)
(* live]; rows keep their index, a removed row is no longer live.  The     *)
(* selector's commands are answered one at a time (the pipeline is        *)
(* DirectorConnection's, checked in the partial_restore runs); the user    *)
(* waits for the busy cursor before a click that sends a command.          *)
(***************************************************************************)
EXTENDS Naturals, Sequences, SequencesExt

CONSTANTS
    FS,         \* the client's directories in the backup, as name sequences
    EmptyDirs,  \* those with no entry at all (their listing is [])
    MaxOps      \* bound on user clicks

Slash == "/"
Dummy == "..."   \* the temporary child row of a directory not yet listed
NoDir == <<"None">>
NoCmd == [cmd |-> "none"]

VARIABLES
    tree,        \* FileSelectorView.tree_model
    cwd,         \* FileSelector.cwd_path (NoDir: None)
    contents,    \* FileSelector.cwd_contents (NoDir: None)
    visited,     \* the keys of FileSelector._visited
    shown,       \* the directory whose listing the file list shows
    allowInput,  \* FileSelector.allow_input
    pending,     \* the selector command the daemon has still to answer
    dcwd,        \* the daemon's current directory in tree mode
    raised,      \* an exception escaped a callback: the connection wedges
    nops

vars == <<tree, cwd, contents, visited, shown, allowInput, pending, dcwd,
          raised, nops>>

-----------------------------------------------------------------------------
(* Conversions.                                                            *)
Str(d)   == <<Slash>> \o FlattenSeq([i \in DOMAIN d |-> <<d[i], Slash>>])
Split(s) == SelectSeq(s, LAMBDA x : x # Slash)   \* filter(x != '', split)
Join(l)  == IF l = <<>> THEN <<>>
            ELSE Tail(FlattenSeq([i \in DOMAIN l |-> <<Slash, l[i]>>]))

(* The daemon: "cd" resolves an absolute or relative path against its     *)
(* cwd; ".dir" lists the cwd, of which the tree only uses subdirectories.  *)
Resolve(s) == IF s # <<>> /\ Head(s) = Slash THEN Split(s) ELSE dcwd \o Split(s)
Subdirs(d) ==
    SetToSeq({Last(e) : e \in {x \in FS : Len(x) = Len(d) + 1
                                       /\ SubSeq(x, 1, Len(d)) = d}})
Listing(d) == IF d \in EmptyDirs THEN <<>> ELSE d

-----------------------------------------------------------------------------
(* The tree store.                                                         *)
Row(c0, name, p) == [c0 |-> c0, name |-> name, parent |-> p, live |-> TRUE]

(* iter_children / iter_nth_child: the live children of p, in order; 0 is *)
(* the top level.                                                          *)
Children(t, p) ==
    SelectSeq([i \in 1..Len(t) |-> i], LAMBDA i : t[i].live /\ t[i].parent = p)

(* _search with _match_func on column 0: depth first from the top level.   *)
RECURSIVE SearchIn(_, _, _)
SearchIn(t, ks, key) ==
    IF ks = <<>> THEN 0
    ELSE IF t[Head(ks)].c0 = key THEN Head(ks)
    ELSE LET r == SearchIn(t, Children(t, Head(ks)), key)
         IN IF r # 0 THEN r ELSE SearchIn(t, Tail(ks), key)

(* expand_to_dir(iter, path): returns the new store and whether it found  *)
(* the path (True) or fell through (None).  A directory it does not find  *)
(* among iter's children is appended with the path it was called with in  *)
(* column 0.                                                               *)
RECURSIVE expand_to_dir(_, _, _), ScanChildren(_, _, _, _, _)
expand_to_dir(t, it, path) ==
    LET dirlist == Split(path) IN
    IF dirlist = <<>> THEN [t |-> t, ok |-> FALSE]
    ELSE LET dirname == Head(dirlist)
             rest    == Tail(dirlist)
         IN IF Children(t, it) = <<>>
              THEN LET t1 == Append(t, Row(path, dirname, it)) IN
                   IF rest # <<>> THEN expand_to_dir(t1, Len(t1), Join(rest))
                   ELSE expand_to_dir(t1, it, <<dirname, Slash>>)
              ELSE ScanChildren(t, it, path, Children(t, it), 1)

(* The loop over iter's children (their number taken before it starts).   *)
ScanChildren(t, it, path, kids, k) ==
    LET dirname == Head(Split(path))
        rest    == Tail(Split(path))
        c       == kids[k]
    IN IF k > Len(kids) THEN [t |-> t, ok |-> FALSE]
       ELSE IF t[c].name = dirname /\ t[c].name # Dummy
         THEN IF rest = <<>> THEN [t |-> t, ok |-> TRUE]
              ELSE LET r == expand_to_dir(t, c, Join(rest)) IN
                   IF r.ok THEN r ELSE ScanChildren(r.t, it, path, kids, k + 1)
       ELSE IF k = Len(kids)
         THEN LET t1 == Append(t, Row(path, dirname, it))
                  r  == expand_to_dir(t1, Len(t1), Join(rest))
              IN [t |-> r.t, ok |-> r.ok]
       ELSE ScanChildren(t, it, path, kids, k + 1)

(* update_dir_contents(cwd, contents): under the row whose column 0 is     *)
(* cwd, a row and a dummy child per subdirectory; then the first child    *)
(* the row had is removed if it is the dummy.  A row that had no child    *)
(* gives get_value(None, 0), which raises TypeError.                       *)
RECURSIVE AddDirs(_, _, _, _)
AddDirs(t, p, base, names) ==
    IF names = <<>> THEN t
    ELSE LET t1 == Append(t, Row(base \o <<Head(names), Slash>>, Head(names), p))
         IN AddDirs(Append(t1, Row(<<Dummy>>, Dummy, Len(t1))), p, base,
                    Tail(names))

update_dir_contents(t, d) ==
    LET match == SearchIn(t, Children(t, 0), Str(d))
        first == IF Children(t, match) = <<>> THEN 0 ELSE Head(Children(t, match))
        t1    == AddDirs(t, match, Str(d), Subdirs(d))
    IN IF first = 0 THEN [t |-> t1, raises |-> TRUE]
       ELSE [t |-> IF t1[first].c0 = <<Dummy>>
                     THEN [t1 EXCEPT ![first].live = FALSE] ELSE t1,
             raises |-> FALSE]

-----------------------------------------------------------------------------
(* FileSelector.change_dir: allow_input cleared, "cd <directory>" sent.    *)
change_dir(s) ==
    /\ allowInput' = FALSE
    /\ pending' = [cmd |-> "cd", arg |-> s]

(* on_directory_tree_button_press_event: the clicked row's column 0,       *)
(* unless it is the dummy, when allow_input is set.                        *)
on_directory_tree_button_press_event(r) ==
    /\ nops < MaxOps /\ pending = NoCmd
    /\ tree[r].live /\ tree[r].c0 # <<Dummy>> /\ allowInput
    /\ change_dir(tree[r].c0)
    /\ nops' = nops + 1
    /\ UNCHANGED <<tree, cwd, contents, visited, shown, dcwd, raised>>

(* on_file_list_button_press_event: a double click on a directory of the  *)
(* listing shown changes to its full path (column 9, afile['fullpath']).  *)
on_file_list_button_press_event(n) ==
    /\ nops < MaxOps /\ pending = NoCmd /\ shown # NoDir
    /\ change_dir(Str(shown \o <<n>>))
    /\ nops' = nops + 1
    /\ UNCHANGED <<tree, cwd, contents, visited, shown, dcwd, raised>>

(* on_search_treeview_button_press_event: a double click on a directory   *)
(* among the "find" results (full paths) only calls expand_to_dir from    *)
(* the root row; it tests nothing and sends nothing.                      *)
on_search_treeview_button_press_event(d) ==
    /\ nops < MaxOps
    /\ tree' = expand_to_dir(tree, 1, Str(d)).t
    /\ nops' = nops + 1
    /\ UNCHANGED <<cwd, contents, visited, shown, allowInput, pending, dcwd,
                   raised>>

(* The reply to "cd": "cwd is: <path>" or "Invalid path given" (None).    *)
(* _cb_change_dir sets allow_input and, for a path, cwd_path, whose        *)
(* notification (a different path, input allowed) expands the tree to it  *)
(* and calls get_list, which clears allow_input and sends ".dir".          *)
cb_change_dir ==
    /\ pending.cmd = "cd" /\ ~raised
    /\ LET target == Resolve(pending.arg)
           valid  == target \in FS
           moved  == valid /\ target # cwd
       IN /\ dcwd' = IF valid THEN target ELSE dcwd
          /\ cwd' = IF valid THEN target ELSE cwd
          /\ tree' = IF moved THEN expand_to_dir(tree, 1, Str(target)).t
                     ELSE tree
          /\ allowInput' = ~moved
          /\ pending' = IF moved THEN [cmd |-> "dir"] ELSE NoCmd
    /\ UNCHANGED <<contents, visited, shown, raised, nops>>

(* _cb_get_list: allow_input = True, cwd_contents = the listing, whose     *)
(* notification (a different value) updates the tree unless cwd_path is   *)
(* cached, then the file list; then _visited[cwd_path] is set.  An        *)
(* exception in update_dir_contents leaves the callback there.             *)
cb_get_list ==
    /\ pending.cmd = "dir" /\ ~raised
    /\ LET new    == Listing(dcwd)
           notify == new # contents
           upd    == update_dir_contents(tree, cwd)
           fills  == notify /\ cwd \notin visited
       IN /\ allowInput' = TRUE
          /\ contents' = new
          /\ tree' = IF fills THEN upd.t ELSE tree
          /\ IF fills /\ upd.raises
               THEN raised' = TRUE /\ UNCHANGED <<visited, shown, pending>>
               ELSE /\ raised' = FALSE
                    /\ shown' = IF notify THEN cwd ELSE shown
                    /\ visited' = visited \cup {cwd}
                    /\ pending' = NoCmd
    /\ UNCHANGED <<cwd, dcwd, nops>>

-----------------------------------------------------------------------------
(* _init_tree: the root row "/" with its dummy child.                      *)
Init ==
    /\ tree = <<Row(<<Slash>>, Slash, 0), Row(<<Dummy>>, Dummy, 1)>>
    /\ cwd = NoDir /\ contents = NoDir /\ visited = {} /\ shown = NoDir
    /\ allowInput = TRUE /\ pending = NoCmd /\ dcwd = <<>>
    /\ raised = FALSE /\ nops = 0

Next ==
    \/ \E r \in DOMAIN tree : on_directory_tree_button_press_event(r)
    \/ \E n \in {Last(d) : d \in FS \ {<<>>}} :
           /\ shown # NoDir /\ shown \o <<n>> \in FS
           /\ on_file_list_button_press_event(n)
    \/ \E d \in FS : on_search_treeview_button_press_event(d)
    \/ cb_change_dir
    \/ cb_get_list

Spec == Init /\ [][Next]_vars

-----------------------------------------------------------------------------
(* The directory a row stands for: its ancestors' names below the root.   *)
RECURSIVE NodeDir(_, _)
NodeDir(t, r) == IF t[r].parent = 0 THEN <<>>
                 ELSE NodeDir(t, t[r].parent) \o <<t[r].name>>

(* Column 0 of every directory row holds the full path of the directory   *)
(* it shows (the "# full path" column of _init_tree), which is what a     *)
(* click on the row sends as "cd": the tree the search results and the    *)
(* listings build never leads the user to another directory than the one  *)
(* clicked.                                                                *)
TreeColumnIsFullPath ==
    \A r \in DOMAIN tree :
        tree[r].live /\ tree[r].name # Dummy => tree[r].c0 = Str(NodeDir(tree, r))
=============================================================================
