----------------------------- MODULE FileReads ------------------------------
(***************************************************************************)
(* What the workbench reads: a directory page by page or its first entries *)
(* or directories, a file window by window or its beginning, the files a   *)
(* search finds.  Each answer is made from calls to rclone of its own, and *)
(* between them the directory or the file may change.                      *)
(***************************************************************************)
EXTENDS Integers, Lists, Picks

CONSTANTS
    Directories,  \* what rclone lists: sequences of [path, dir, size, weight]
    Contents,     \* of the file: sequences of bytes
    None,         \* no file, no size
    Widths,       \* page sizes, window lengths, limits
    MaxPaged,     \* LIST_PAGED_MAX
    MaxEntries,   \* of a capped listing
    Budget,       \* of its bytes
    MaxPreview,   \* MAX_PREVIEW_BYTES
    MaxScan,      \* SEARCH_MAX_SCAN
    Attempts,     \* NOT_FOUND_STAT_ATTEMPTS
    ReadFaults    \* bound: stats that miss the file, ranges that are ignored

VARIABLES
    items,     \* the directory
    content,   \* the file
    reading,   \* what the workbench reads, and what it has
    disturbed, \* something has changed since it began
    readFaults

readVars == <<items, content, reading, disturbed, readFaults>>

Calm == [at |-> "idle", kind |-> "page", width |-> 1, page |-> 1, size |-> 0,
         tries |-> 0, got |-> <<>>, cut |-> FALSE]

ReadInit ==
    /\ items \in Directories
    /\ content \in Contents
    /\ reading = Calm
    /\ disturbed = FALSE
    /\ readFaults = 0

Least(m, n) == IF m < n THEN m ELSE n
Most(m, n) == IF m > n THEN m ELSE n

Goes(next) == reading' = next /\ UNCHANGED <<items, content, disturbed, readFaults>>
Refuses == Goes([reading EXCEPT !.at = "failed"])
Ends(got, cut) == Goes([reading EXCEPT !.at = "done", !.got = got, !.cut = cut])
Is(label, kind) == reading.at = label /\ reading.kind = kind

Begins ==
    /\ reading.at = "idle"
    /\ \E kind \in {"page", "cap", "dirs", "range", "prefix", "search"}, width \in Widths :
          Goes([Calm EXCEPT !.at = IF kind \in {"range", "prefix"} THEN "stat"
                                   ELSE IF kind = "search" THEN "scan" ELSE "list",
                            !.kind = kind, !.width = width])

------------------------------------------------------------------------------
(* entry_from_item; and filter_and_sort: what is listed may come with an   *)
(* entry of its own, whose path here is 0.                                 *)
EntryOf(item) ==
    [path |-> item.path, dir |-> item.dir, weight |-> item.weight,
     size |-> IF item.dir \/ item.size < 0 THEN None ELSE item.size]
Entries ==
    LET named == Picked(items, {item \in ToSet(items) : item.path # 0})
    IN [i \in DOMAIN named |-> EntryOf(named[i])]
Before(entries, i) ==
    {j \in DOMAIN entries : \/ entries[j].path < entries[i].path
                           \/ (entries[j].path = entries[i].path /\ j < i)}
Listing ==
    LET entries == Entries
    IN [n \in DOMAIN entries |->
           entries[CHOOSE i \in DOMAIN entries : Cardinality(Before(entries, i)) = n - 1]]

(* page_window: the bounds of a page of what is listed now.                *)
(* Mistake: a page begins at the entry the last one ended with.            *)
PageWindowFromLast(total, page, width) ==
    LET size == Most(width, 1)
        start == Least(Most(page - 1, 0) * size, total)
    IN <<Most(start, 1), Least(start + size, total)>>
PageWindow(total, page, width) ==
    LET size == Most(width, 1)
        start == Least(Most(page - 1, 0) * size, total)
    IN <<start + 1, Least(start + size, total)>>

(* list_paged; the workbench asks for the next page until it has them all. *)
ListsPage ==
    /\ Is("list", "page")
    /\ LET total == Len(Listing)
           bounds == PageWindow(total, reading.page, reading.width)
           got == reading.got \o SubSeq(Listing, bounds[1], bounds[2])
       IN IF total > MaxPaged THEN Refuses
          ELSE IF reading.page * Most(reading.width, 1) >= total THEN Ends(got, FALSE)
          ELSE Goes([reading EXCEPT !.page = @ + 1, !.got = got])

(* cap_entries_for_response: so many entries, and so many bytes, but one   *)
(* at least.                                                               *)
Weight(entries) == FoldLeft(LAMBDA n, e : n + e.weight, 0, entries)
Fits(entries, n) ==
    /\ n <= MaxEntries
    /\ n <= 1 \/ Weight(SubSeq(entries, 1, n)) <= Budget
Head_(entries) ==
    SubSeq(entries, 1, CHOOSE n \in 0..Len(entries) :
        Fits(entries, n) /\ (n = Len(entries) \/ ~Fits(entries, n + 1)))
Capped(entries) == Ends(Head_(entries), Len(Head_(entries)) < Len(entries))
Directs(entries) == Picked(entries, {e \in ToSet(entries) : e.dir})
ListsCapped == Is("list", "cap") /\ Capped(Listing)

(* list_dirs: of a file its directory is listed; only then it is capped.   *)
ListsDirs == Is("list", "dirs") /\ Capped(Directs(Listing))

(* files/search: the tree is counted before it is walked, and what is      *)
(* found comes in the order of the walk.                                   *)
Found ==
    LET hits == Picked(items, {item \in ToSet(items) : ~item.dir})
    IN [i \in DOMAIN hits |-> [EntryOf(hits[i]) EXCEPT !.size = Most(hits[i].size, 0)]]
Scans ==
    /\ Is("scan", "search")
    /\ IF Len(Found) > MaxScan THEN Refuses ELSE Goes([reading EXCEPT !.at = "list"])
Searches ==
    /\ Is("list", "search")
    /\ LET limit == Most(reading.width, 1)
       IN Ends(SubSeq(Found, 1, Least(limit, Len(Found))), Len(Found) > limit)

------------------------------------------------------------------------------
(* stat: a file that has just been touched may be missed, and the          *)
(* beginning of a file is asked for again.                                 *)
Misses ==
    /\ reading.at = "stat"
    /\ readFaults < ReadFaults /\ readFaults' = readFaults + 1
    /\ reading' = IF reading.kind = "prefix" /\ reading.tries + 1 < Attempts
                  THEN [reading EXCEPT !.tries = @ + 1]
                  ELSE [reading EXCEPT !.at = "failed"]
    /\ UNCHANGED <<items, content, disturbed>>
StatsFile ==
    /\ reading.at = "stat"
    /\ IF content = None THEN Refuses
       ELSE LET size == Len(content)
                next == [reading EXCEPT !.at = "get", !.size = size]
            IN IF reading.kind = "range" /\ Len(reading.got) >= size
               THEN Ends(reading.got, FALSE) ELSE Goes(next)

(* read_prefix asks for one byte more than it gives.                       *)
Bytes(first, last) == SubSeq(content, first + 1, Least(last + 1, Len(content)))
GetsPrefix ==
    /\ Is("get", "prefix")
    /\ LET most == Least(Most(reading.width, 1), MaxPreview)
           body == Bytes(0, most)
       IN IF content = None THEN Refuses
          ELSE Ends(SubSeq(body, 1, Least(most, Len(body))), Len(body) > most)

(* read_range, from where the last window ended, and eof.                  *)
RangeEnd(offset, length, size) == Least(Most(offset + length - 1, 0), Most(size - 1, 0))
Takes(body) ==
    LET got == reading.got \o body
    IN IF Len(got) >= reading.size THEN Ends(got, FALSE)
       ELSE Goes([reading EXCEPT !.at = "stat", !.got = got])
GetsRange ==
    /\ Is("get", "range")
    /\ LET offset == Len(reading.got)
           length == Least(reading.width, MaxPreview)
       IN IF length = 0 THEN Takes(<<>>)
          ELSE IF content = None \/ offset >= Len(content) THEN Refuses
          ELSE Takes(Bytes(offset, RangeEnd(offset, length, reading.size)))

(* A remote that does not know ranges sends it all: of use only if what is *)
(* wanted is the beginning.                                                *)
GetsAll ==
    /\ reading.at = "get" /\ content # None
    /\ reading.kind = "range" => reading.width > 0
    /\ readFaults < ReadFaults /\ readFaults' = readFaults + 1
    /\ LET length == Least(reading.width, MaxPreview)
       IN reading' = IF reading.kind = "prefix" \/ reading.got # <<>>
                     THEN [reading EXCEPT !.at = "failed"]
                     ELSE [reading EXCEPT !.got = Bytes(0, length - 1),
                             !.at = IF Least(length, Len(content)) >= reading.size
                                    THEN "done" ELSE "stat"]
    /\ UNCHANGED <<items, content, disturbed>>

------------------------------------------------------------------------------
Disturbs ==
    /\ ~disturbed /\ disturbed' = TRUE
    /\ \/ items' \in Directories /\ UNCHANGED content
       \/ content' \in Contents /\ UNCHANGED items
    /\ UNCHANGED <<reading, readFaults>>

ReadNext ==
    \/ Begins \/ ListsPage \/ ListsCapped \/ ListsDirs \/ Scans \/ Searches
    \/ Misses \/ StatsFile \/ GetsPrefix \/ GetsRange \/ GetsAll \/ Disturbs

ReadSpec == ReadInit /\ [][ReadNext]_readVars

------------------------------------------------------------------------------
ReadTypeOK ==
    /\ items \in Directories /\ content \in Contents
    /\ reading.at \in {"idle", "list", "scan", "stat", "get", "done", "failed"}
    /\ reading.tries < Attempts
    /\ readFaults \in 0..ReadFaults

(* What is read of a directory or file that holds still is whole: pages    *)
(* and windows put together are all of it, in order and each once, and     *)
(* what is cut short is its beginning, and says so (ops.rs:325-333,        *)
(* 284-309, 649-846).                                                      *)
WindowsAreWhole ==
    reading.at = "done" /\ ~disturbed =>
        LET all == CASE reading.kind \in {"page", "cap"} -> Listing
                     [] reading.kind = "dirs" -> Directs(Listing)
                     [] reading.kind = "search" -> Found
                     [] OTHER -> content
        IN /\ IsPrefix(reading.got, all)
           /\ reading.cut <=> Len(reading.got) < Len(all)
           /\ reading.kind \in {"page", "range"} => ~reading.cut
           /\ all # <<>> => reading.got # <<>>
=============================================================================
