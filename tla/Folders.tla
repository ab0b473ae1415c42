------------------------------ MODULE Folders ------------------------------
(***************************************************************************)
(* The two gates between a path a caller names and the files below a base  *)
(* folder: SafeWalk (fs.rs), which lists them, and validate_path           *)
(* (security.rs), which plan_move asks for both ends of a move.  A file    *)
(* system is a function from places, sequences of names, to what is there; *)
(* a link names the place it leads to.                                     *)
(***************************************************************************)
EXTENDS Lists, SequencesExt

CONSTANTS
    Names,      \* names of files and folders
    Hidden      \* those that begin with a dot

ASSUME FoldersAssumption == Hidden \subseteq Names /\ {".", ".."} \cap Names = {}

Nothing == [kind |-> "none", to |-> <<>>]
AFile   == [kind |-> "file", to |-> <<>>]
ADir    == [kind |-> "dir",  to |-> <<>>]
Link(place) == [kind |-> "link", to |-> place]

Found(fs, place) ==
    IF place = <<>> THEN ADir
    ELSE IF place \in DOMAIN fs THEN fs[place] ELSE Nothing

Below(place, base) == IsPrefix(base, place)

\* Where a path leads when links are followed (canonicalize).  No place has
\* the name ".", which stands for nowhere; no link leads to a link.
Nowhere == <<".">>

Follow(fs, at, name) ==
    LET next == Append(at, name) IN
    CASE at = Nowhere \/ Found(fs, at).kind # "dir" -> Nowhere
      [] OTHER -> CASE Found(fs, next).kind = "none" -> Nowhere
                    [] Found(fs, next).kind = "link" -> Found(fs, next).to
                    [] OTHER -> next

Resolved(fs, place) ==
    FoldLeft(LAMBDA at, name : Follow(fs, at, name), <<>>, place)

-----------------------------------------------------------------------------
(* SafeWalk::walk *)

HiddenBelow(base, place) ==
    \E i \in Len(base) + 1 .. Len(place) : place[i] \in Hidden

(* What WalkDir yields of the folder: nothing beyond max_depth, nothing    *)
(* below a link, and with filter_entry nothing hidden, nor anything in a   *)
(* base that is itself hidden.                                             *)
Entries(fs, base, budget) ==
    {p \in DOMAIN fs :
        /\ Below(p, base) /\ p # base
        /\ Len(p) - Len(base) <= budget.depth
        /\ Found(fs, p).kind # "none"
        /\ \A q \in Prefixes(p) \ {p, <<>>} : Below(q, base) => Found(fs, q).kind = "dir"
        /\ budget.hidden \/ (~HiddenBelow(base, p) /\ Last(base) \notin Hidden)}

\* Faulty: one file too many is found out.
FullLate(files, budget) == Len(files) > budget.files

Full(files, budget) == Len(files) >= budget.files

Listing(files) == [ends |-> "ok", files |-> files]
NoBase         == [ends |-> "no base", files |-> <<>>]
TooMany        == [ends |-> "too many", files |-> <<>>]

Collect(fs, budget, out, p) ==
    CASE out = TooMany \/ fs[p].kind # "file" -> out
      [] out # TooMany /\ fs[p].kind = "file" /\ Full(out.files, budget) -> TooMany
      [] OTHER -> Listing(Append(out.files, p))

(* The entries come in any order; the walk stops at the first file beyond  *)
(* the budget.                                                             *)
Walk(fs, given, budget, order) ==
    LET base == Resolved(fs, given) IN
    IF base = Nowhere \/ Found(fs, base).kind # "dir"
    THEN NoBase
    ELSE FoldLeft(LAMBDA out, p : Collect(fs, budget, out, p), Listing(<<>>), order)

-----------------------------------------------------------------------------
(* validate_path *)

Refused == [ok |-> FALSE, place |-> <<>>]
Accept(place) == [ok |-> TRUE, place |-> place]

(* A path is absolute or not, and has names, "." and "..": what an absolute *)
(* one, or the base joined with a relative one, is without its dots.        *)
Normal(path, base) ==
    (IF path.absolute THEN <<>> ELSE base)
    \o At(path.names, {i \in DOMAIN path.names : path.names[i] # "."})

\* Faulty: only the last name is looked at.
LinkLast(fs, base, place) == Found(fs, place).kind = "link"

\* symlink_metadata of every place from the base down.
LinkBelow(fs, base, place) ==
    \E n \in Len(base) + 1 .. Len(place) : Found(fs, SubSeq(place, 1, n)).kind = "link"

Escapes(fs, base, place) ==
    LET end == Resolved(fs, place)
        parent == Resolved(fs, Front(place))
    IN  IF end # Nowhere
        THEN ~Below(end, base)
        ELSE parent # Nowhere /\ ~Below(parent, base)

ValidatePath(fs, path, given) ==
    LET base  == Resolved(fs, given)
        place == Normal(path, base)
    IN  CASE \/ path.names = <<>> /\ ~path.absolute
             \/ ".." \in Range(path.names)
             \/ base = Nowhere                      -> Refused
          [] OTHER -> IF \/ ~Below(place, base)
                         \/ LinkBelow(fs, base, place)
                         \/ Escapes(fs, base, place)
                      THEN Refused
                      ELSE Accept(IF Resolved(fs, place) # Nowhere
                                  THEN Resolved(fs, place) ELSE place)

-----------------------------------------------------------------------------
(* What the gates promise *)

Visible(fs, base, budget) ==
    {p \in Entries(fs, base, budget) : Found(fs, p).kind = "file"}

\* Nothing on the way to the place is a link, so that it is where it says.
Straight(fs, place) ==
    \A n \in 1 .. Len(place) :
        LET p == SubSeq(place, 1, n) IN Resolved(fs, p) \in {p, Nowhere}

-----------------------------------------------------------------------------
(* What the gates are given *)

(* The orders in which WalkDir may yield the entries below a base.         *)
Yields(fs, base, budget, order) ==
    order \in Seq(Entries(fs, base, budget)) /\ EachOnce(order)
    /\ Range(order) = Entries(fs, base, budget)

WalkAsked(fs, given, budget, order) ==
    /\ DOMAIN fs \subseteq Seq(Names) \ {<<>>}
    /\ budget.files \in Nat
    /\ Resolved(fs, given) # Nowhere => Yields(fs, Resolved(fs, given), budget, order)

Upto(place, k) == SubSeq(place, 1, k)

(* A place that is where it says: it is there, below folders, and neither  *)
(* it nor any of these is a link.                                          *)
Real(fs, place) ==
    /\ place \in Seq(Names)
    /\ \A k \in 1 .. Len(place) : Found(fs, Upto(place, k)).kind \notin {"none", "link"}
    /\ \A k \in 0 .. Len(place) - 1 : Found(fs, Upto(place, k)).kind = "dir"

(* A link leads to such a place, or nowhere.                               *)
Tree(fs) ==
    /\ DOMAIN fs \subseteq Seq(Names) \ {<<>>}
    /\ \A p \in DOMAIN fs :
           fs[p].kind = "link" => Real(fs, fs[p].to) \/ fs[p].to = Nowhere

=============================================================================
