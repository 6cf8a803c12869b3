CONSTANTS
    Thread = {t1, t2, t3}
    Nobody = Nobody
SPECIFICATION MSpec
INVARIANT MutexInv
PROPERTY AnswersHold
PROPERTY MutexFreed
