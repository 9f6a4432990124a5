------------------------------- MODULE MCIcons -------------------------------
(* Icons for TLC. *)
EXTENDS Icons

\* Nothing written, fragments shorter and longer than a patched number and than
\* a chunk's header, whole images, a PNG smaller and one larger than the 262184
\* bytes first entered for it.
MCPngSizes == {0, 1, 3, 4, 7, 8, 57, 4096, 262183, 262184, 300000}

\* Rows with every remainder of four.
MCWidths == 1..16
MCHeights == 1..9
=============================================================================
