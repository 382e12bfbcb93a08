-------------------------------- MODULE MCConsole --------------------------------
(* Small instances of Console: a screen of two rows of two columns. *)
EXTENDS Console

M(hue, chars) == [level |-> 1, color |-> hue, text |-> chars]

Texts == { M("white", << NL >>), M("white", << "a", NL >>), M("yellow", << "b", "c", NL >>),
           M("white", << "a", "b", "c", NL >>),
           [level |-> 0, color |-> "gray", text |-> << "d", NL >>] }

Short == { M("white", << "a", NL >>) }
================================================================================
