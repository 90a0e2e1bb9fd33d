-------------------------- MODULE MCApprovalReplay --------------------------
\* The constants of ApprovalReplay are numbers: the .cfg gives them values.
EXTENDS ApprovalReplay
=============================================================================
