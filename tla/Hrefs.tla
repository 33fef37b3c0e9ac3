-------------------------------- MODULE Hrefs --------------------------------
(***************************************************************************)
(* Names in a container and hrefs that point at them.  A name is a folder, *)
(* a file and a tail, which is "" or begins with # or ?; a href may spell  *)
(* its path in another way ("./a", "text/../a").  The same characters are  *)
(* a fragment in a href and part of the name in a ZIP archive.             *)
(***************************************************************************)
\* The empty href; "" is the root folder, no file and no tail.
NoHref == [folder |-> "", file |-> "", tail |-> "", dotted |-> FALSE]

\* The folder itself: what path.Clean makes of a path with nothing in it.
Here   == [NoHref EXCEPT !.file = "."]
Cleaned(path) == IF path = NoHref THEN Here ELSE path

\* The canonical key of a href: no fragment or query, cleaned path.
CleanHref(href) == Cleaned([href EXCEPT !.tail = "", !.dotted = FALSE])

\* path.Join with the folder of the package file: cleans, keeps the tail.
\* Hrefs of a package have no folder of their own here.
ResolvePath(opfPath, href) == Cleaned([href EXCEPT !.folder = opfPath.folder, !.dotted = FALSE])
=============================================================================
