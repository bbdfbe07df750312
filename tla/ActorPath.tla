------------------------------ MODULE ActorPath ------------------------------
(***************************************************************************)
(* ActorPath (actor/src/path.rs): the operations of a path and its text. A *)
(* path is a sequence of names. A text is a sequence of characters, for    *)
(* is_ancestor_of compares texts, where one name may begin like another.   *)
(***************************************************************************)
EXTENDS Integers, Sequences, SequencesExt

Separator == "/"
Space == " "

-----------------------------------------------------------------------------
(* From and Div: the text is split at the separators, blank pieces go.     *)

\* str::split('/'): a separator begins a new piece.
AddCharacter(pieces, c) ==
    IF c = Separator THEN Append(pieces, <<>>)
    ELSE [pieces EXCEPT ![Len(pieces)] = Append(@, c)]

Split(text) == FoldLeft(AddCharacter, << <<>> >>, text)

\* filter(|x| !x.trim().is_empty()).
Blank(piece) == \A i \in DOMAIN piece : piece[i] = Space
AddPiece(tokens, piece) == IF Blank(piece) THEN tokens ELSE Append(tokens, piece)

Tokens(text) == FoldLeft(AddPiece, <<>>, Split(text))

From(text) == Tokens(text)

\* Mutant: the name is appended as it is.
DivUnsplit(path, text) == Append(path, text)

Div(path, text) == path \o Tokens(text)

-----------------------------------------------------------------------------
\* Display: each name after a separator, and a lone separator for no name.
Display(path) ==
    IF path = <<>> THEN <<Separator>>
    ELSE FlattenSeq([i \in DOMAIN path |-> <<Separator>> \o path[i]])

Level(path) == Len(path)

IsTopLevel(path) == Len(path) = 1

Root(path) == IF path = <<>> THEN <<>> ELSE <<path[1]>>

ParentPath(path) == IF Len(path) > 1 THEN SubSeq(path, 1, Len(path) - 1) ELSE <<>>

Key(path) == IF path = <<>> THEN <<>> ELSE Last(path)

\* at_level; its branch for a top level path is never reached.
AtLevel(path, level) ==
    IF level < 1 \/ level >= Level(path) THEN path
    ELSE IF level = Level(path) - 1 THEN ParentPath(path)
    ELSE SubSeq(path, 1, level)

\* Mutant: the separator is not appended, so that a name matches its beginning.
IsAncestorOfLoosely(path, other) == IsPrefix(Display(path), Display(other)) /\ path # other

\* is_ancestor_of compares the texts.
IsAncestorOf(path, other) == IsPrefix(Append(Display(path), Separator), Display(other))

IsDescendantOf(path, other) == IsPrefix(Append(Display(other), Separator), Display(path))

IsParentOf(path, other) == path = ParentPath(other)

IsChildOf(path, other) == ParentPath(path) = other

-----------------------------------------------------------------------------
\* A path and its text stand for each other: parsing what Display wrote gives the
\* path back, and path / name is the path of the two texts joined by a separator, as
\* start_store and its callers take it to be, however many separators and blanks the
\* name has.
PathText(path, name) ==
    /\ From(Display(path)) = path
    /\ Div(path, name) = From(Display(path) \o <<Separator>> \o name)

\* What is_ancestor_of finds by comparing texts is ancestry in the tree of names, also
\* for names that begin alike; is_descendant_of is its converse, at_level gives the
\* ancestor of that level, and parent the nearest one. (The empty path is no ancestor.)
Ancestry(path, other) ==
    /\ IsAncestorOf(path, other) <=> path # <<>> /\ IsStrictPrefix(path, other)
    /\ IsDescendantOf(other, path) <=> IsAncestorOf(path, other)
    /\ IsAncestorOf(path, other) <=> /\ Level(path) \in 1..(Level(other) - 1)
                                     /\ AtLevel(other, Level(path)) = path
    /\ path # <<>> => (IsParentOf(path, other) <=> /\ IsAncestorOf(path, other)
                                                   /\ Level(other) = Level(path) + 1)
    /\ IsChildOf(other, path) <=> IsParentOf(path, other)

=============================================================================
