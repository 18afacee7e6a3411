------------------------------ MODULE MC_Input ------------------------------
(***************************************************************************)
(* Input on short texts: endings of every kind, every boundary between the *)
(* forms of UTF-8, byte order marks, consoles with a Ctrl+Z, and bytes     *)
(* that spell no character.  The buffer is of six bytes, and of a console  *)
(* two characters at a time are asked for: a text of four takes two reads  *)
(* or more, and a read may bring a Ctrl+Z and leave characters behind it.  *)
(***************************************************************************)
EXTENDS NumericInput

MCUpTo(n, S) == UNION {[1 .. k -> S] : k \in 0 .. n}

(* Endings, and characters of one byte to four; on a console, to three. *)
MCChars == {NEWLINE, RETURN, 97, 233, 8364, 128512}
MCConsole == {NEWLINE, RETURN, 233, 8364, CTRL_Z}
MCBoundaries == {0, 127, 128, 2047, 2048, 55295, 57344, 65535, 65536, 1114111}
MCMarked == {<<MARK>>, <<MARK, 97>>, <<97, MARK>>}

(* Too long, too great, surrogates, out of place, or cut short. *)
MCNonText ==
    {EncodeIn(2, 127), EncodeIn(3, 2047), EncodeIn(4, 65535), EncodeIn(3, 55296), EncodeIn(3, 57343),
     EncodeIn(4, 1114112), <<128>>, <<191, NEWLINE>>, <<255>>, <<195>>, <<195, NEWLINE>>,
     <<226, 130>>, <<240, 159, 152>>, <<195, 195, 169>>}

(* Numbers around both limits, and what is next to digits and a sign. *)
MCLeastInt == -16
MCDigits == {44, HYPHEN, 47, 48, 49, 53, 54, 57, 58}
MCNumerals == UNION {[1 .. n -> MCDigits] : n \in 1 .. 3} \cup {<<HYPHEN>> \o s : s \in [1 .. 3 -> {48, 49, 54}]}

MCSources ==
    {Source(FALSE, FALSE, text, << >>) : text \in MCNumerals} \cup
    {Source(FALSE, mark, text, << >>) : mark \in BOOLEAN, text \in MCUpTo(3, MCChars)}
    \cup {Source(FALSE, mark, <<c>>, << >>) : mark \in BOOLEAN, c \in MCBoundaries}
    \cup {Source(FALSE, TRUE, text, << >>) : text \in MCMarked}
    \cup {Source(FALSE, FALSE, text, tail) : text \in MCUpTo(1, MCChars), tail \in MCNonText}
    \cup {Source(TRUE, FALSE, text, << >>) : text \in MCUpTo(4, MCConsole)}
=============================================================================
