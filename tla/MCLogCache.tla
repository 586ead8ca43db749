------------------------------ MODULE MCLogCache -----------------------------
(* A directory with a file in a repository of a few revisions. *)
EXTENDS LogCache

CONSTANTS root, dir, file

MCPath == {root, dir, file}
MCParent == [p \in {dir, file} |-> IF p = file THEN dir ELSE root]

\* Long quiet stretches, a file that is changed now and then, and a directory
\* that is changed without the file.
MCHistories == {<<{dir, file}, {dir}, {}, {}, {}, {}, {}>>,
                <<{dir}, {file}, {}, {dir}, {file}, {}, {dir}>>}

Ask(p, start, end, limit, props) ==
  [path |-> p, start |-> start, end |-> end, limit |-> limit, props |-> props]

\* Logs of a single revision, of a stretch and of everything.
MCAsked == {Ask(dir, 1, 1, 0, TRUE), Ask(dir, 4, 4, 0, TRUE), Ask(dir, 6, 6, 0, TRUE),
            Ask(dir, 7, 0, 0, TRUE), Ask(file, 7, 0, 0, TRUE), Ask(file, 7, 3, 2, TRUE),
            Ask(file, 5, 4, 0, FALSE), Ask(root, 6, 0, 0, FALSE), Ask(root, 7, 4, 1, TRUE),
            Ask(root, 0, 0, 0, TRUE)}

\* A log that may be cut short, and one that ends where the first was cut.
MCShort == {Ask(dir, 2, 0, 0, TRUE), Ask(dir, 3, 2, 0, TRUE)}

=============================================================================
