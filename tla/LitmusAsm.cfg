SPECIFICATION Spec
CONSTANTS
    Archs = {"AArch64", "PPC"}
    Names = {"A1", "A1m_nowmb", "A1m_nomb", "A1m_gets", "C1", "D1", "D1m", "B1", "B1m_nomb", "B1m_peek",
             "B2", "E1", "E2", "B2r", "B2m"}
INVARIANTS
    NeverHolds
    SectionsHold
