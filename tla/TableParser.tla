----------------------------- MODULE TableParser -----------------------------
(***************************************************************************)
(* TableParser.parse (parsers/__init__.py), the parser of "list jobs"      *)
(* that Director.update_jobs_list hands to the connection.  A line of the  *)
(* reply is abstracted to what the parser looks at:                        *)
(*   k      "border" (starts with +), "row" (starts with |), "text"        *)
(*          (anything else) or "noresults" (a text containing the          *)
(*          "No results" marker);                                          *)
(*   v      which text it is: list.remove compares lines by value;        *)
(*   cells  the fields of row.split("|")[1:-1] (0 for a line without |).   *)
(* A parsed row is abstracted to the line it came from and the number of   *)
(* header keys it maps.                                                    *)
(***************************************************************************)
EXTENDS Naturals, Sequences
LOCAL INSTANCE SequencesExt

CONSTANTS
    MaxPre,    \* most informational lines the Director prints before a table
    MaxRows,   \* most data rows of a table
    NCols      \* columns of the table

Line == [k : {"border", "row", "text", "noresults"}, v : Nat, cells : Nat]

(* The replies the Director sends: each line ends in "\n", so the split    *)
(* leaves an empty last line; informational lines may come first.          *)
Empty       == [k |-> "text", v |-> 0, cells |-> 0]
Info(i)     == [k |-> "text", v |-> i, cells |-> 0]
Border      == [k |-> "border", v |-> 0, cells |-> 0]
Header      == [k |-> "row", v |-> 0, cells |-> NCols]
DataRow(i)  == [k |-> "row", v |-> i, cells |-> NCols]
NoResults   == [k |-> "noresults", v |-> 0, cells |-> 0]

Preamble(p) == [i \in 1..p |-> Info(i)]
Table(n)    == <<Border, Header, Border>> \o [i \in 1..n |-> DataRow(i)]
                   \o <<Border>>
Messages ==
    {Preamble(p) \o body \o <<Empty>> :
        p \in 0..MaxPre,
        body \in {<<NoResults>>} \cup {Table(n) : n \in 0..MaxRows}}

-----------------------------------------------------------------------------
(* sre.match('^\+', row) or sre.match('^\|', row).                         *)
IsTableLine(l) == l.k \in {"border", "row"}

(* for row in a: if not a table line: a.remove(row).  Python's list       *)
(* iterator walks an index over the list being shrunk; remove deletes the *)
(* first line equal to row.  So the line after a removed one is skipped.  *)
RECURSIVE CleanRows(_, _)
CleanRows(a, i) ==
    IF i > Len(a) THEN a
    ELSE IF IsTableLine(a[i]) THEN CleanRows(a, i + 1)
    ELSE CleanRows(RemoveAt(a, SelectInSeq(a, LAMBDA x : x = a[i])), i + 1)

(* row.split("|")[1:-1]: the fields between the bars.                      *)
Cells(l) == IF l.k = "row" THEN l.cells ELSE 0

(* The whole of parse: the "No results" search, the clean-up, the headers *)
(* read from a[1] (which raises IndexError on a list of fewer than two     *)
(* lines), the rows message.split("\n")[3:-1], and for each row one         *)
(* r.pop(0) per header (IndexError when the row has too few fields).        *)
parse(msg) ==
    IF \E i \in DOMAIN msg : msg[i].k = "noresults"
    THEN [raises |-> FALSE, rows |-> <<>>]
    ELSE LET a == CleanRows(msg, 1) IN
         IF Len(a) < 2 THEN [raises |-> TRUE, rows |-> <<>>]
         ELSE LET headers == Cells(a[2])
                  data    == SubSeq(a, 4, Len(a) - 1)
              IN IF \E i \in DOMAIN data : Cells(data[i]) < headers
                 THEN [raises |-> TRUE, rows |-> <<>>]
                 ELSE [raises |-> FALSE,
                       rows |-> [i \in DOMAIN data |->
                                    [line |-> data[i], keys |-> headers]]]

-----------------------------------------------------------------------------
(* What spec 4.1 asks of the tabular parser: a "no results" reply is the  *)
(* empty sequence; otherwise every data row of the table, in order, maps   *)
(* each column header; lines that are neither border nor row are dropped,  *)
(* and the parse does not raise.                                           *)
RefRows(msg) ==
    LET rows == SelectSeq(msg, LAMBDA l : l.k = "row")
    IN IF (\E i \in DOMAIN msg : msg[i].k = "noresults") \/ rows = <<>>
       THEN <<>>
       ELSE [i \in 1..Len(rows) - 1 |->
                [line |-> rows[i + 1], keys |-> Cells(rows[1])]]

VARIABLE msg

Init == msg \in Messages
Next == UNCHANGED msg
Spec == Init /\ [][Next]_msg

-----------------------------------------------------------------------------
(* Every reply to "list jobs" parses, without raising, into one mapping    *)
(* per data row with every header as a key: the informational lines the    *)
(* Director may print before the table are dropped.  Were a row an empty   *)
(* mapping, Director._running_jobs_updater's job['JobStatus'] would raise  *)
(* inside the io handler.                                                  *)
TableParsedAsSpecified ==
    parse(msg) = [raises |-> FALSE, rows |-> RefRows(msg)]
=============================================================================
