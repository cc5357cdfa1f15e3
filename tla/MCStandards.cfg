SPECIFICATION Spec
CONSTANTS
    NoType = NoType
    Absent = NoType
    EOC = 0
    ChunkTag = 4
    Types <- MCTypes
    Schema <- MCSchema
    Tags <- MCTags
    Plain <- MCPlain
    AnyTokens <- MCAnyTokens
    Roots <- MCRoots
    MaxDepth = 128
    Rules = {"BER", "CER", "DER"}
    MaxChoices = 1
    Only = {}
    Excluded = {"TbsCertList", "CertificateList", "RevocationInfoChoice", "TargetCert",
                "FirmwarePackageLoadError", "GlMember", "GlAddMember", "GlManageCert",
                "EssSecurityLabel", "PersonalName", "TeletexPersonalName"}
INVARIANT ReadsAsWritten
INVARIANT RoundTrip
