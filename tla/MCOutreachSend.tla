-------------------------- MODULE MCOutreachSend --------------------------
EXTENDS OutreachSend, TLC

Symmetry == Permutations(Senders) \cup Permutations(Drafts)
=============================================================================
