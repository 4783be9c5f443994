----------------------- MODULE MCConnectionSessions -----------------------
EXTENDS SessionReports, TLC

CONSTANTS u1, u2, w1, w2, c1
OneUser    == {u1}
TwoUsers   == {u1, u2}
OneUpload  == {w1}
TwoUploads == {w1, w2}
OneRecord  == {c1}
NoRecords  == {}
OneStart   == {0}
TwoStarts  == {0, 1}
UserSymmetry == Permutations(Users)
=============================================================================
