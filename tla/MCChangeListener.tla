--------------------------- MODULE MCChangeListener ---------------------------
\* Small instances of ChangeListener: a group and a contact.
EXTENDS ChangeListener

CONSTANTS G, c1

OneContact == {G, c1}

=============================================================================
