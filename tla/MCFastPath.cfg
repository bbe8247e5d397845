SPECIFICATION FastSpec
CONSTANTS
    P = 239
    LimbWidth = 2
    NLimbs = 5
    Operands <- FastOperands
    Moduli <- FastModuli
    Words <- FastWords
    ExpBits = {1}
    Squarings = {1}
INVARIANTS
    CarriesNeverUnderflow
CHECK_DEADLOCK FALSE
