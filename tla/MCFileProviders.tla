---------------------------- MODULE MCFileProviders ----------------------------
(* Small instances of FileProviders. *)
EXTENDS FileProviders, TLC

\* Two names below "a", one below "b".
SomePaths == {<<>>, <<"a">>, <<"a", "a">>, <<"a", "b">>, <<"b">>, <<"b", "a">>}

\* Every path once, two of them with "." and ".." in it, and one more through a link.
SomeRaws == (SomePaths \ {<<"a", "b">>, <<"b", "a">>})
              \cup {<<"..", "a", ".", "b">>, <<"a", "..", "b", "a">>, <<"a", "l", "a">>}

OneRoot == {<<"a">>}
OneLink == <<"a", "l">> :> <<"b">>
\* "a" stands for a name such as my_dir, which LIKE also matches with my-dir
\* ("_" is any character, and letters match in either case).
NoLikes == {}
LikeNames == {<<"a", "b">>}
\* The replacement of what is no UTF-8 is a text that clients write too.
Binary == "bytes" :> "text"
=============================================================================
