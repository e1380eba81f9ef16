---------------------------- MODULE MCRunAdmission ----------------------------
EXTENDS RunAdmission, TLC

UserSymmetry == Permutations(Users)
=============================================================================
