SPECIFICATION RateSpec
CONSTANTS
    U = 2
    L = 4
    CC_CWND_MIN = 1
    CwndInit = 1
    CC_AI = 1
    GInv = 2
    CC_FAST_RECOVERY_CNT = 1
    CC_REACTION_TIME = 2
    TIMEOUT_TIME = 4
    MAX_WIN_LEN = 8
    MAX_PKT_BURST = 2
    WinLimit = 5
    MaxGap = 2
INVARIANTS CwndInRange TimeoutPrompt
PROPERTIES TimeoutNotEarly DecreaseNeedsNews WindowReopens
