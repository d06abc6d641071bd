----------------------------- MODULE MCRleImage -----------------------------
EXTENDS RleImage
NextFile == <<1, 1, 1, 1, 1, 1, 1, 1>>
=============================================================================
