\* A cut-off file lets tdx-qgs start.
SPECIFICATION Spec
CONSTANTS
    MaxVersion = 2
    NoFile = NoFile
    Torn = Torn
INVARIANT
    QgsHasCertificates
